---- MODULE Spec2Model ----
(***************************************************************************)
(* A state-machine model of the mscp FUSE daemon of multi-storage-client   *)
(* (src/posix/fuse/mscp): the inode table and its LRU evictor, the file    *)
(* handles, the read path with its cache lines and fetch goroutines, the   *)
(* paginated directory enumeration, and the configuration (re)load.        *)
(*                                                                         *)
(* Pointers of the Go program are modelled as keys into heaps: an inode is *)
(* named by its inodeNumber, a cache line by <<inodeNumber, lineNumber>>   *)
(* (inode numbers are nonces and are never reused, and no code path        *)
(* removes a line from inode.cache).                                       *)
(***************************************************************************)
EXTENDS Integers, Sequences, FiniteSets, TLC

(* ------------------------------ bounds --------------------------------- *)

\* Largest nonce fetchNonce may hand out (inode numbers and file handles).
MaxNonce == 4

\* The last nonce handed out where a file is opened several times: one for
\* the file's inode, three for its handles.
MaxOpenNonce == 6

\* In the tree of directories no handle is opened from this nonce on.
MaxTreeNonce == 6

\* checkConfigFile's loop is watched for this many retry delays.
MaxRetryDelays == 16

\* collectBuffer is watched up to this many snapshots.
MaxSnapshots == 2

\* The clock stops advancing here.
MaxTime == 1

\* config.evictableInodeTTL, in clock ticks; also the evictor's ticker period.
evictableInodeTTL == 1

\* config.cacheLineSize, in bytes.
cacheLineSize == 2

\* config.cacheLines: the number of cache lines provisioned.
cacheLines == 1

\* Size in bytes of the one object "f" of the bucket: larger than a cache
\* line, so that it spans two.
ObjectSize == cacheLineSize + 1

(* ------------------------- program constants --------------------------- *)

FUSERootDirInodeNumber == 1

FileObject == "FileObject"

FUSERootDir == "FUSERootDir"

BackendRootDir == "BackendRootDir"

PseudoDir == "PseudoDir"

CacheLineInbound == "CacheLineInbound"

CacheLineClean == "CacheLineClean"

ENOENT == "ENOENT"

ENOTDIR == "ENOTDIR"

EISDIR == "EISDIR"

EBADF == "EBADF"

EACCES == "EACCES"

NULL == "NULL"

\* errno = 0.
OK == "OK"

\* No backend call in progress.
NoCall == [op |-> NULL]

\* No cache line waited for.
NoLine == <<>>

(* ------------------------------ helpers -------------------------------- *)

Put(f, k, v) == [x \in DOMAIN f \cup {k} |-> IF x = k THEN v ELSE f[x]]

Del(f, k) == [x \in DOMAIN f \ {k} |-> f[x]]

Remove(s, e) == SelectSeq(s, LAMBDA x : x # e)

Range(s) == {s[i] : i \in DOMAIN s}

Max(S) == CHOOSE x \in S : \A y \in S : y <= x

Min(a, b) == IF a < b THEN a ELSE b

EmptyMap == [x \in {} |-> 0]

(* ------------------------------- state --------------------------------- *)

VARIABLES
    now,                    \* time.Now(), in ticks
    nextTick,               \* when the inodeEvictor's ticker fires next
    lastNonce,              \* globals.lastNonce
    inodeMap,               \* globals.inodeMap: inodeNumber -> inodeStruct
    inodeLRU,               \* globals.inodeLRU, front first
    backendInodeMap,        \* backend.inodeMap: objectPath -> inodeNumber
    cacheLineHeap,          \* every cacheLineStruct allocated, by <<inode, line>>
    cleanCacheLineLRU,      \* globals.cleanCacheLineLRU, front first
    inboundCacheLineCount,  \* globals.inboundCacheLineCount
    fetchQueued,            \* fetch goroutines spawned and not yet run, per line
    fetchReading,           \* fetch goroutines inside readFile, per line
    readFileLog,            \* every readFile call made: the byte range asked, per line
    readAsked,              \* the largest Size a DoRead asked of each inode so far
    readers,                \* the DoRead requests being served
    lockHolder,             \* who holds globals.Lock(), or NULL
    backendCall,            \* the blocking backend call DoLookup is inside, or NULL
    fhHeap,                 \* the fhStruct of every open handle, by nonce
    readDirCall,            \* the DoReadDir / DoReadDirPlus request being served
    scan,                   \* the kernel's enumeration of one open directory
    configFile,             \* the document at globals.configFilePath
    config,                 \* globals.config: the applied settings and mounted backends
    backendsToMount,        \* globals.backendsToMount: dirName -> backend
    backendsToUnmount,      \* globals.backendsToUnmount: dirName -> backend
    err,                    \* main's err: what the last checkConfigFile returned
    renameErrno,            \* the errno DoRename / DoRename2 replied, until the kernel takes it
    backendS3,              \* backendConfigS3Struct's retry settings
    s3Store,                \* the object at the S3 endpoint and how the endpoint behaves
    s3Call,                 \* the s3Context call in progress and its requests
    reader,                 \* the DiperiodicReader's channels, context and mutex
    readerPc,               \* where each goroutine using the DiperiodicReader is
    compat,                 \* the client-compatible document, its path, and what checkConfigFile made of it
    transport,              \* the telemetry request under way: its attempts, sleeps and token
    bucket                  \* the keys of the backend's bucket, in the store's (byte) order

fsVars == <<now, nextTick, lastNonce, inodeMap, inodeLRU, backendInodeMap,
            cacheLineHeap, cleanCacheLineLRU, inboundCacheLineCount,
            fetchQueued, fetchReading, readFileLog, readers, lockHolder,
            backendCall, readAsked, bucket>>

vars == <<now, nextTick, lastNonce, inodeMap, inodeLRU, backendInodeMap,
          cacheLineHeap, cleanCacheLineLRU, inboundCacheLineCount,
          fetchQueued, fetchReading, readFileLog, readers, lockHolder,
          backendCall, readAsked, fhHeap, readDirCall, scan, configFile,
          config, backendsToMount, backendsToUnmount, err, renameErrno,
          backendS3, s3Store, s3Call, reader, readerPc, compat, transport,
          bucket>>

dirVars == <<fhHeap, readDirCall, scan>>

cfgVars == <<configFile, config, backendsToMount, backendsToUnmount, err>>

\* What the file system, the directory handles and the configuration leave
\* alone.
otherVars == <<renameErrno, backendS3, s3Store, s3Call, reader, readerPc,
               compat, transport, bucket>>

s3Vars == <<backendS3, s3Store, s3Call>>

telemetryVars == <<reader, readerPc>>

extVars == <<compat, transport>>

(* --------------------------- the bucket -------------------------------- *)

\* The keys of the backend's bucket at startup, in the store's (byte) order.
ObjectKeys == <<"d/e/x", "d/g", "f", "f2", "f3", "f4">>

\* The keys once another client has deleted the objects under "d/" and put
\* an object "d".
ReplacedKeys == <<"d", "f", "f2", "f3", "f4">>

\* The objects of the bucket: key -> content (a byte is its offset).
Objects ==
    [ p \in Range(ObjectKeys) \cup Range(ReplacedKeys) |->
        [i \in 1..ObjectSize |-> i - 1] ]

\* The names the kernel looks up under the backend root.
LookupNames == {"f", "x"}

\* The request threads serving reads: one, or two concurrently.
OneReader == {"r1"}

TwoReaders == {"r1", "r2"}

\* The sizes read requests ask for, from offset 0.
ReadSizes == {cacheLineSize, ObjectSize}

\* No DoReadDir request in progress.
IdleReadDir == [pc |-> "idle"]

\* DoReadDir has called logger.Fatalf: the daemon has exited.
Fatal == [pc |-> "fatal"]

\* The kernel enumerates no directory.
IdleScan == [state |-> "idle"]

(* ------------------------- inodes (fs.go) ------------------------------ *)

\* fetchNonce: the next nonce.
fetchNonce == lastNonce + 1

\* isEvictable with a backend's root treated as any directory.
isEvictableRootAsDir(inode) ==
    CASE inode.inodeType = FileObject ->
            ~inode.isVirt /\ inode.fhMap = {}
      [] inode.inodeType = FUSERootDir -> FALSE
      [] inode.inodeType \in {BackendRootDir, PseudoDir} ->
            /\ ~inode.isVirt
            /\ inode.fhMap = {}
            /\ Cardinality(DOMAIN inode.virtChildDirMap) = 2
            /\ DOMAIN inode.virtChildFileMap = {}

\* isEvictable: roots never, a FileObject when it is not virtual and has no
\* open handle, a PseudoDir when moreover it has no virtual child.
isEvictable(inode) ==
    CASE inode.inodeType = FileObject ->
            ~inode.isVirt /\ inode.fhMap = {}
      [] inode.inodeType = FUSERootDir -> FALSE
      [] inode.inodeType = BackendRootDir -> FALSE
      [] inode.inodeType = PseudoDir ->
            /\ ~inode.isVirt
            /\ inode.fhMap = {}
            /\ Cardinality(DOMAIN inode.virtChildDirMap) = 2
            /\ DOMAIN inode.virtChildFileMap = {}

\* touch(nil, nil), the inode's part: lTime becomes time.Now().
touch(inode) == [inode EXCEPT !.lTime = now]

\* touch(nil, nil), the LRU's part: the inode leaves the LRU and is pushed
\* back only if it is evictable.
touchLRU(lru, inode) ==
    IF isEvictable(inode)
    THEN Append(Remove(lru, inode.inodeNumber), inode.inodeNumber)
    ELSE Remove(lru, inode.inodeNumber)

\* createFileObjectInode(false, basename, ...) under parentInode, with the
\* nonce it draws: the inode it makes (the caller stores it).
newFileObjectInode(parentInode, basename, inodeNumber) ==
    [ inodeNumber       |-> inodeNumber,
      inodeType         |-> FileObject,
      parentInodeNumber |-> parentInode.inodeNumber,
      isVirt            |-> FALSE,
      objectPath        |-> parentInode.objectPath \o basename,
      basename          |-> basename,
      lTime             |-> now,
      fhMap             |-> {},
      virtChildDirMap   |-> EmptyMap,
      virtChildFileMap  |-> EmptyMap,
      cache             |-> {} ]

createFileObjectInode(parentInode, basename) ==
    newFileObjectInode(parentInode, basename, fetchNonce)

\* initFS and processToMountList: the FUSE root and the root of backend "b".
InitInodeMap ==
    [ n \in {FUSERootDirInodeNumber, FUSERootDirInodeNumber + 1} |->
        IF n = FUSERootDirInodeNumber
        THEN [ inodeNumber       |-> n,
               inodeType         |-> FUSERootDir,
               parentInodeNumber |-> n,
               isVirt            |-> FALSE,
               objectPath        |-> "",
               basename          |-> "",
               lTime             |-> 0,
               fhMap             |-> {},
               virtChildDirMap   |-> [ x \in {".", "..", "b"} |->
                                         IF x = "b" THEN n + 1 ELSE n ],
               virtChildFileMap  |-> EmptyMap,
               cache             |-> {} ]
        ELSE [ inodeNumber       |-> n,
               inodeType         |-> BackendRootDir,
               parentInodeNumber |-> FUSERootDirInodeNumber,
               isVirt            |-> FALSE,
               objectPath        |-> "",
               basename          |-> "b",
               lTime             |-> 0,
               fhMap             |-> {},
               virtChildDirMap   |-> [ x \in {".", ".."} |->
                                         IF x = "." THEN n
                                         ELSE FUSERootDirInodeNumber ],
               virtChildFileMap  |-> EmptyMap,
               cache             |-> {} ] ]

\* The number of inodes at the front of the LRU whose lTime is at least a
\* TTL old: the evictor's loop stops at the first younger one.
RECURSIVE evictCount(_)
evictCount(lru) ==
    IF lru = <<>> THEN 0
    ELSE IF inodeMap[Head(lru)].lTime + evictableInodeTTL > now THEN 0
    ELSE 1 + evictCount(Tail(lru))

\* The clock advances.
AdvanceTime ==
    /\ now < MaxTime
    /\ now' = now + 1
    /\ UNCHANGED <<nextTick, lastNonce, inodeMap, inodeLRU, backendInodeMap,
                   cacheLineHeap, cleanCacheLineLRU, inboundCacheLineCount,
                   fetchQueued, fetchReading, readFileLog, readers,
                   lockHolder, backendCall, readAsked, dirVars, cfgVars, otherVars>>

\* inodeEvictor, one firing of its ticker: under the lock, every inode at
\* the front of the LRU that is old enough leaves globals.inodeMap, the LRU,
\* its backend's inodeMap and its parent's virtual child map.
inodeEvictor ==
    /\ now >= nextTick
    /\ lockHolder = NULL
    /\ LET k == evictCount(inodeLRU)
           old == {inodeLRU[i] : i \in 1..k}
           oldPaths == {inodeMap[n].objectPath : n \in old}
           survivors == DOMAIN inodeMap \ old
           unlink(n, m, type) ==
               [ x \in {y \in DOMAIN m :
                          ~\E o \in old :
                              /\ inodeMap[o].parentInodeNumber = n
                              /\ inodeMap[o].inodeType = type
                              /\ inodeMap[o].basename = y} |-> m[x] ]
       IN  /\ inodeMap' =
                [ n \in survivors |->
                    [ inodeMap[n] EXCEPT
                        !.virtChildFileMap = unlink(n, @, FileObject),
                        !.virtChildDirMap = unlink(n, @, PseudoDir) ] ]
           /\ inodeLRU' = SubSeq(inodeLRU, k + 1, Len(inodeLRU))
           /\ backendInodeMap' =
                [ p \in DOMAIN backendInodeMap \ oldPaths |-> backendInodeMap[p] ]
    /\ nextTick' = nextTick + evictableInodeTTL
    /\ UNCHANGED <<now, lastNonce, cacheLineHeap, cleanCacheLineLRU,
                   inboundCacheLineCount, fetchQueued, fetchReading,
                   readFileLog, readers, lockHolder, backendCall, readAsked, dirVars, cfgVars, otherVars>>

(* ------------------- lookup (fission.go, fs.go) ------------------------ *)

\* statFile: HeadObject succeeds exactly for a key of the bucket.
statFile(filePath) == filePath \in Range(bucket)

\* statDirectory: a one-key listing under dirPath finds something.
statDirectory(dirPath) ==
    dirPath = "" \/ \E p \in Range(bucket) :
                        /\ Len(p) > Len(dirPath)
                        /\ SubSeq(p, 1, Len(dirPath)) = dirPath

\* DoLookup up to findChildInode's call of statFile: the lock is taken, the
\* parent is found and is a backend's directory, and the handler blocks in
\* the backend call without releasing the lock.
DoLookupStatFile(NodeID, Name) ==
    /\ lockHolder = NULL
    /\ NodeID \in DOMAIN inodeMap
    /\ inodeMap[NodeID].inodeType \in {BackendRootDir, PseudoDir}
    /\ lockHolder' = "DoLookup"
    /\ backendCall' = [ op       |-> "statFile",
                        caller   |-> "DoLookup",
                        NodeID   |-> NodeID,
                        basename |-> Name,
                        path     |-> inodeMap[NodeID].objectPath \o Name ]
    /\ UNCHANGED <<now, nextTick, lastNonce, inodeMap, inodeLRU,
                   backendInodeMap, cacheLineHeap, cleanCacheLineLRU,
                   inboundCacheLineCount, fetchQueued, fetchReading,
                   readFileLog, readers, readAsked, dirVars, cfgVars, otherVars>>

\* DoLookup on a parent that is missing (ENOENT), a FileObject (ENOTDIR) or
\* the FUSE root (answered from virtChildDirMap): no state changes.
DoLookupNoBackend(NodeID) ==
    /\ lockHolder = NULL
    /\ \/ NodeID \notin DOMAIN inodeMap
       \/ /\ NodeID \in DOMAIN inodeMap
          /\ inodeMap[NodeID].inodeType \in {FileObject, FUSERootDir}
    /\ UNCHANGED vars

\* findChildInode's parent once the backend has confirmed the child found
\* at path in backend.inodeMap: a child marked virtual leaves the parent's
\* virtual-child map of its type.
confirmedParent(parentInode, path, basename) ==
    IF path \in DOMAIN backendInodeMap /\ inodeMap[backendInodeMap[path]].isVirt
    THEN IF inodeMap[backendInodeMap[path]].inodeType = FileObject
         THEN [parentInode EXCEPT !.virtChildFileMap = Del(@, basename)]
         ELSE [parentInode EXCEPT !.virtChildDirMap = Del(@, basename)]
    ELSE parentInode

\* globals.inodeMap once findChildInode has dealt with the child found at
\* path in backend.inodeMap: no longer virtual; when it is not of the type
\* the backend confirmed it is orphaned, its fhMap cleared.
confirmedInodeMap(path, inodeType) ==
    IF path \notin DOMAIN backendInodeMap THEN inodeMap
    ELSE IF inodeMap[backendInodeMap[path]].inodeType = inodeType
    THEN [inodeMap EXCEPT ![backendInodeMap[path]].isVirt = FALSE]
    ELSE [inodeMap EXCEPT ![backendInodeMap[path]].isVirt = FALSE,
                          ![backendInodeMap[path]].fhMap = {}]

\* statFile returned success: findChildInode finds the child in
\* backend.inodeMap, or creates it; the deferred touches run; DoLookup
\* replies and unlocks.
findChildInodeFound ==
    /\ backendCall.op = "statFile"
    /\ statFile(backendCall.path)
    /\ LET parentInode == touch(confirmedParent(inodeMap[backendCall.NodeID],
                                                backendCall.path,
                                                backendCall.basename))
           confirmed == confirmedInodeMap(backendCall.path, FileObject)
           exists == /\ backendCall.path \in DOMAIN backendInodeMap
                     /\ inodeMap[backendInodeMap[backendCall.path]].inodeType
                            = FileObject
           childInode ==
               IF exists
               THEN touch(confirmed[backendInodeMap[backendCall.path]])
               ELSE createFileObjectInode(parentInode, backendCall.basename)
       IN  /\ exists \/ lastNonce < MaxNonce
           /\ lastNonce' = IF exists THEN lastNonce ELSE fetchNonce
           /\ inodeMap' = Put(Put(confirmed, parentInode.inodeNumber, parentInode),
                              childInode.inodeNumber, childInode)
           /\ inodeLRU' = touchLRU(touchLRU(inodeLRU, parentInode), childInode)
           /\ backendInodeMap' =
                Put(backendInodeMap, backendCall.path, childInode.inodeNumber)
    /\ lockHolder' = NULL
    /\ backendCall' = NoCall
    /\ UNCHANGED <<now, nextTick, cacheLineHeap, cleanCacheLineLRU,
                   inboundCacheLineCount, fetchQueued, fetchReading,
                   readFileLog, readers, readAsked, dirVars, cfgVars, otherVars>>

\* statFile failed: findChildInode goes on to statDirectory, still under
\* the lock.
findChildInodeStatDirectory ==
    /\ backendCall.op = "statFile"
    /\ ~statFile(backendCall.path)
    /\ backendCall' = [backendCall EXCEPT !.op = "statDirectory"]
    /\ UNCHANGED <<now, nextTick, lastNonce, inodeMap, inodeLRU,
                   backendInodeMap, cacheLineHeap, cleanCacheLineLRU,
                   inboundCacheLineCount, fetchQueued, fetchReading,
                   readFileLog, readers, lockHolder, readAsked, dirVars, cfgVars, otherVars>>

\* statDirectory failed too: the parent is touched, DoLookup replies ENOENT
\* and unlocks.
findChildInodeMissing ==
    /\ backendCall.op = "statDirectory"
    /\ ~statDirectory(backendCall.path)
    /\ LET parentInode == touch(inodeMap[backendCall.NodeID])
       IN  /\ inodeMap' = Put(inodeMap, parentInode.inodeNumber, parentInode)
           /\ inodeLRU' = touchLRU(inodeLRU, parentInode)
    /\ lockHolder' = NULL
    /\ backendCall' = NoCall
    /\ UNCHANGED <<now, nextTick, lastNonce, backendInodeMap, cacheLineHeap,
                   cleanCacheLineLRU, inboundCacheLineCount, fetchQueued,
                   fetchReading, readFileLog, readers, readAsked, dirVars, cfgVars, otherVars>>

(* ------------------- open and release (fission.go) --------------------- *)

\* The flags of an open: the bits set. FOpenRequestRDONLY is no bit at all.
FOpenRequestRDONLY == {}

OpenFlags ==
    SUBSET {"FOpenRequestWRONLY", "FOpenRequestRDWR", "FOpenRequestEXCL",
            "FOpenRequestAPPEND"}

\* inode.backend.readOnly: every file is an object of the backend "b".
readOnly ==
    /\ "b" \in DOMAIN config.backends
    /\ config.backends["b"].settings["readonly"] = 1

\* DoOpen's fhStruct for the flags.
newFileFH(Flags) ==
    [ isExclusive  |-> "FOpenRequestEXCL" \in Flags,
      allowReads   |-> Flags \cap {"FOpenRequestWRONLY", "FOpenRequestRDWR"}
                          # {"FOpenRequestWRONLY"},
      allowWrites  |-> Flags \cap {"FOpenRequestWRONLY", "FOpenRequestRDWR"}
                          # FOpenRequestRDONLY,
      appendWrites |-> /\ Flags \cap {"FOpenRequestWRONLY", "FOpenRequestRDWR"}
                             # FOpenRequestRDONLY
                       /\ "FOpenRequestAPPEND" \in Flags ]

\* DoOpen's errno with writers let in whatever the backend.
DoOpenErrnoWritable(NodeID, Flags) ==
    IF NodeID \notin DOMAIN inodeMap THEN ENOENT
    ELSE IF inodeMap[NodeID].inodeType # FileObject THEN EISDIR
    ELSE IF /\ Cardinality(inodeMap[NodeID].fhMap) = 1
            /\ \E fh \in inodeMap[NodeID].fhMap \cap DOMAIN fhHeap :
                  fhHeap[fh].isExclusive
    THEN EACCES
    ELSE OK

\* DoOpen's errno: ENOENT, EISDIR, EACCES for a file opened exclusively or
\* for a writer on a read-only backend, or none.
DoOpenErrno(NodeID, Flags) ==
    IF NodeID \notin DOMAIN inodeMap THEN ENOENT
    ELSE IF inodeMap[NodeID].inodeType # FileObject THEN EISDIR
    ELSE IF /\ Cardinality(inodeMap[NodeID].fhMap) = 1
            /\ \E fh \in inodeMap[NodeID].fhMap \cap DOMAIN fhHeap :
                  fhHeap[fh].isExclusive
    THEN EACCES
    ELSE IF newFileFH(Flags).allowWrites /\ readOnly THEN EACCES
    ELSE OK

\* DoOpen: a new handle, with what the flags allow, joins inode.fhMap;
\* nothing changes when the errno is not 0. The nonces handed out stop at
\* max.
DoOpenUpTo(NodeID, Flags, max) ==
    /\ lockHolder = NULL
    /\ IF DoOpenErrno(NodeID, Flags) = OK
       THEN /\ lastNonce < max
            /\ lastNonce' = fetchNonce
            /\ fhHeap' = Put(fhHeap, fetchNonce, newFileFH(Flags))
            /\ inodeMap' = [inodeMap EXCEPT ![NodeID].fhMap = @ \cup {fetchNonce}]
       ELSE UNCHANGED <<lastNonce, inodeMap, fhHeap>>
    /\ UNCHANGED <<now, nextTick, inodeLRU, backendInodeMap, cacheLineHeap,
                   cleanCacheLineLRU, inboundCacheLineCount, fetchQueued,
                   fetchReading, readFileLog, readers, lockHolder,
                   backendCall, readAsked, readDirCall, scan, cfgVars,
                   otherVars>>

\* DoOpen while the nonces handed out stop at MaxNonce.
DoOpen(NodeID, Flags) == DoOpenUpTo(NodeID, Flags, MaxNonce)

\* DoRelease: the handle leaves inode.fhMap. ENOENT and EBADF change nothing.
DoRelease(NodeID, FH) ==
    /\ lockHolder = NULL
    /\ IF /\ NodeID \in DOMAIN inodeMap
          /\ inodeMap[NodeID].inodeType = FileObject
          /\ FH \in inodeMap[NodeID].fhMap
       THEN /\ inodeMap' = [inodeMap EXCEPT ![NodeID].fhMap = @ \ {FH}]
            /\ fhHeap' = Del(fhHeap, FH)
       ELSE UNCHANGED <<inodeMap, fhHeap>>
    /\ UNCHANGED <<now, nextTick, lastNonce, inodeLRU, backendInodeMap,
                   cacheLineHeap, cleanCacheLineLRU, inboundCacheLineCount,
                   fetchQueued, fetchReading, readFileLog, readers,
                   lockHolder, backendCall, readAsked, readDirCall, scan,
                   cfgVars, otherVars>>

(* ---------------------- rename (fission.go) ---------------------------- *)

EXDEV == "EXDEV"

\* The flags of an extended rename: none or RENAME_NOREPLACE.
RenameFlags == {"none", "RENAME_NOREPLACE"}

\* The directories renames name: the mount root and the backend's root.
RenameDirs == {FUSERootDirInodeNumber, FUSERootDirInodeNumber + 1}

\* A rename carried out: the inode takes the new name under the new parent.
DoRenameRelink(NodeID, Name, NewDir, NewName) ==
    /\ renameErrno = NULL
    /\ renameErrno' = OK
    /\ \E n \in DOMAIN inodeMap :
          /\ inodeMap[n].parentInodeNumber = NodeID
          /\ inodeMap[n].basename = Name
          /\ inodeMap' = [inodeMap EXCEPT ![n].parentInodeNumber = NewDir,
                                          ![n].basename = NewName]
    /\ UNCHANGED <<now, nextTick, lastNonce, inodeLRU, backendInodeMap,
                   cacheLineHeap, cleanCacheLineLRU, inboundCacheLineCount,
                   fetchQueued, fetchReading, readFileLog, readers,
                   lockHolder, backendCall, readAsked, bucket, dirVars,
                   cfgVars, s3Vars, telemetryVars, extVars>>

\* DoRename: errno = syscall.EXDEV, whatever the request names.
DoRename(NodeID, Name, NewDir, NewName) ==
    /\ renameErrno = NULL
    /\ renameErrno' = EXDEV
    /\ UNCHANGED <<fsVars, dirVars, cfgVars, s3Vars, telemetryVars, extVars>>

\* DoRename2: errno = syscall.EXDEV, whatever the request names and flags.
DoRename2(NodeID, Name, NewDir, NewName, Flags) ==
    /\ renameErrno = NULL
    /\ renameErrno' = EXDEV
    /\ UNCHANGED <<fsVars, dirVars, cfgVars, s3Vars, telemetryVars, extVars>>

\* The kernel takes the reply of the rename.
RenameReturn ==
    /\ renameErrno # NULL
    /\ renameErrno' = NULL
    /\ UNCHANGED <<fsVars, dirVars, cfgVars, s3Vars, telemetryVars, extVars>>

(* ------------------ read path (fission.go, fetch) ---------------------- *)

\* A request thread that serves no read.
IdleReader ==
    [ pc |-> "idle", NodeID |-> 0, FH |-> 0, Size |-> 0, curOffset |-> 0,
      Data |-> <<>>, errno |-> NULL, line |-> NoLine ]

\* DoRead's cacheLineNumber for an offset.
cacheLineNumberOf(curOffset) == curOffset \div cacheLineSize

\* A DoRead that takes a line still Inbound for a miss as well.
cacheMissOrInbound(inode, cacheLineNumber) ==
    \/ cacheLineNumber \notin inode.cache
    \/ cacheLineHeap[<<inode.inodeNumber, cacheLineNumber>>].state = CacheLineInbound

\* A readFile whose range runs one byte into the next cache line.
readFileRangeEndExclusive(offsetCacheLine) ==
    << offsetCacheLine * cacheLineSize,
       offsetCacheLine * cacheLineSize + cacheLineSize >>

\* DoRead's test for a cache miss: the inode's cache has no line of that number.
cacheMiss(inode, cacheLineNumber) == cacheLineNumber \notin inode.cache

\* readFile's byte range for a cache line: <<rangeBegin, rangeEnd>>.
readFileRange(offsetCacheLine) ==
    << offsetCacheLine * cacheLineSize,
       offsetCacheLine * cacheLineSize + cacheLineSize - 1 >>

\* Whether the store answers readFile: the object exists and the range
\* begins inside it.
readFileOK(filePath, offsetCacheLine) ==
    /\ filePath \in Range(bucket)
    /\ readFileRange(offsetCacheLine)[1] < Len(Objects[filePath])

\* readFile's buf: the bytes of the range that the object holds.
readFileBuf(filePath, offsetCacheLine) ==
    SubSeq(Objects[filePath],
           readFileRange(offsetCacheLine)[1] + 1,
           Min(readFileRange(offsetCacheLine)[2] + 1, Len(Objects[filePath])))

\* A cacheLine.touch() that leaves a Clean line where it is.
cacheLineTouchInPlace(key) == cleanCacheLineLRU

\* cacheLine.touch() for a Clean line: to the back of the clean LRU.
cacheLineTouch(key) ==
    IF cacheLineHeap[key].state = CacheLineClean
    THEN Append(Remove(cleanCacheLineLRU, key), key)
    ELSE cleanCacheLineLRU

\* DoRead is called through a handle the kernel got from DoOpen: the reply
\* buffer is made, curOffset is readIn.Offset.
DoReadAt(r, NodeID, FH, Offset, Size) ==
    /\ readers[r].pc = "idle"
    /\ NodeID \in DOMAIN inodeMap
    /\ FH \in inodeMap[NodeID].fhMap
    /\ readers' = [readers EXCEPT ![r] =
                     [ pc |-> "loop", NodeID |-> NodeID, FH |-> FH,
                       Size |-> Size, curOffset |-> Offset, Data |-> <<>>,
                       errno |-> NULL, line |-> NoLine ]]
    /\ readAsked' = Put(readAsked, NodeID,
                        IF NodeID \in DOMAIN readAsked /\ readAsked[NodeID] > Size
                        THEN readAsked[NodeID] ELSE Size)
    /\ UNCHANGED <<now, nextTick, lastNonce, inodeMap, inodeLRU,
                   backendInodeMap, cacheLineHeap, cleanCacheLineLRU,
                   inboundCacheLineCount, fetchQueued, fetchReading,
                   readFileLog, lockHolder, backendCall, dirVars, cfgVars, otherVars>>

\* DoRead with readIn.Offset = 0: a read from the start of the file.
DoReadBegin(r, NodeID, FH, Size) == DoReadAt(r, NodeID, FH, 0, Size)

\* One pass of DoRead's loop, under the lock; a reader in cacheLine.Wait()
\* resumes once the line's wait group is at zero. The slice expression
\* cacheLine.content[cacheLineOffsetStart:cacheLineOffsetLimit] panics when
\* its start is above its limit: the reader ends at "panic".
DoReadLoop(r) ==
    LET rd == readers[r]
        done(e) == [rd EXCEPT !.pc = "done", !.errno = e, !.line = NoLine]
        quiet == UNCHANGED <<inodeMap, cacheLineHeap, cleanCacheLineLRU,
                             inboundCacheLineCount, fetchQueued>>
    IN
    /\ lockHolder = NULL
    /\ \/ rd.pc = "loop"
       \/ rd.pc = "wait" /\ cacheLineHeap[rd.line].wg = 0
    /\ IF Len(rd.Data) >= rd.Size
       THEN readers' = [readers EXCEPT ![r] = done(OK)] /\ quiet
       ELSE IF rd.NodeID \notin DOMAIN inodeMap
       THEN readers' = [readers EXCEPT ![r] = done(ENOENT)] /\ quiet
       ELSE IF \/ inodeMap[rd.NodeID].inodeType # FileObject
               \/ rd.FH \notin inodeMap[rd.NodeID].fhMap
               \/ ~fhHeap[rd.FH].allowReads
       THEN readers' = [readers EXCEPT ![r] = done(EBADF)] /\ quiet
       ELSE
        LET inode == inodeMap[rd.NodeID]
            cacheLineNumber == cacheLineNumberOf(rd.curOffset)
            key == <<inode.inodeNumber, cacheLineNumber>>
        IN
        IF cacheMiss(inode, cacheLineNumber)
        THEN \* allocate an Inbound line and start its fetch, then Wait()
             /\ inodeMap' = [inodeMap EXCEPT ![rd.NodeID].cache =
                                @ \cup {cacheLineNumber}]
             /\ cacheLineHeap' = Put(cacheLineHeap, key,
                                     [ state |-> CacheLineInbound,
                                       content |-> <<>>,
                                       wg |-> 1 ])
             /\ inboundCacheLineCount' = inboundCacheLineCount + 1
             /\ fetchQueued' = Put(fetchQueued, key,
                                   IF key \in DOMAIN fetchQueued
                                   THEN fetchQueued[key] + 1 ELSE 1)
             /\ readers' = [readers EXCEPT ![r] =
                              [rd EXCEPT !.pc = "wait", !.line = key]]
             /\ UNCHANGED cleanCacheLineLRU
        ELSE IF cacheLineHeap[key].state = CacheLineInbound
        THEN \* somebody else's fetch is in flight: Wait() for it
             /\ readers' = [readers EXCEPT ![r] =
                              [rd EXCEPT !.pc = "wait", !.line = key]]
             /\ quiet
        ELSE \* a Clean line: touch it and copy what it holds
             LET content == cacheLineHeap[key].content
                 start == rd.curOffset - cacheLineNumber * cacheLineSize
                 limit == Min(Min(start + (rd.Size - Len(rd.Data)),
                                  cacheLineSize),
                              Len(content))
             IN
             /\ cleanCacheLineLRU' = cacheLineTouch(key)
             /\ readers' = [readers EXCEPT ![r] =
                   IF limit = start
                   THEN done(OK)
                   ELSE IF limit < start
                   THEN [rd EXCEPT !.pc = "panic", !.line = NoLine]
                   ELSE [rd EXCEPT !.pc = "loop", !.line = NoLine,
                            !.Data = @ \o SubSeq(content, start + 1, limit),
                            !.curOffset = @ + (limit - start)]]
             /\ UNCHANGED <<inodeMap, cacheLineHeap, inboundCacheLineCount,
                            fetchQueued>>
    /\ UNCHANGED <<now, nextTick, lastNonce, inodeLRU, backendInodeMap,
                   fetchReading, readFileLog, lockHolder, backendCall,
                   readAsked, dirVars, cfgVars, otherVars>>

\* The kernel takes DoRead's reply; the thread is free again.
DoReadReturn(r) ==
    /\ readers[r].pc = "done"
    /\ readers' = [readers EXCEPT ![r] = IdleReader]
    /\ UNCHANGED <<now, nextTick, lastNonce, inodeMap, inodeLRU,
                   backendInodeMap, cacheLineHeap, cleanCacheLineLRU,
                   inboundCacheLineCount, fetchQueued, fetchReading,
                   readFileLog, lockHolder, backendCall, readAsked, dirVars, cfgVars, otherVars>>

\* A fetch that ends without taking the line off the inbound count.
fetchLandedCounted(key, content) ==
    /\ cacheLineHeap' = [cacheLineHeap EXCEPT
                           ![key].state = CacheLineClean,
                           ![key].content = content,
                           ![key].wg = @ - 1]
    /\ inboundCacheLineCount' = inboundCacheLineCount
    /\ cleanCacheLineLRU' = Append(cleanCacheLineLRU, key)

\* The line becomes Clean with the given content: fetch's three endings.
fetchLanded(key, content) ==
    /\ cacheLineHeap' = [cacheLineHeap EXCEPT
                           ![key].state = CacheLineClean,
                           ![key].content = content,
                           ![key].wg = @ - 1]
    /\ inboundCacheLineCount' = inboundCacheLineCount - 1
    /\ cleanCacheLineLRU' = Append(cleanCacheLineLRU, key)

\* fetch, from its start to its call of readFile: under the lock it looks
\* its inode up; a missing inode ends the fetch with an empty Clean line;
\* otherwise the lock is released and readFile is called.
fetchStart(key) ==
    /\ lockHolder = NULL
    /\ key \in DOMAIN fetchQueued
    /\ fetchQueued[key] > 0
    /\ fetchQueued' = [fetchQueued EXCEPT ![key] = @ - 1]
    /\ IF key[1] \notin DOMAIN inodeMap
       THEN /\ fetchLanded(key, <<>>)
            /\ UNCHANGED <<fetchReading, readFileLog>>
       ELSE /\ fetchReading' = Put(fetchReading, key,
                                   IF key \in DOMAIN fetchReading
                                   THEN fetchReading[key] + 1 ELSE 1)
            /\ readFileLog' = Put(readFileLog, key,
                                  IF key \in DOMAIN readFileLog
                                  THEN Append(readFileLog[key],
                                              [ filePath |-> inodeMap[key[1]].objectPath,
                                                range |-> readFileRange(key[2]) ])
                                  ELSE << [ filePath |-> inodeMap[key[1]].objectPath,
                                            range |-> readFileRange(key[2]) ] >>)
            /\ UNCHANGED <<cacheLineHeap, inboundCacheLineCount,
                           cleanCacheLineLRU>>
    /\ UNCHANGED <<now, nextTick, lastNonce, inodeMap, inodeLRU,
                   backendInodeMap, readers, lockHolder, backendCall,
                   readAsked, dirVars, cfgVars, otherVars>>

\* A fetch that returns on readFile's error without touching its line.
fetchFinishSilent(key, failed) ==
    /\ lockHolder = NULL
    /\ key \in DOMAIN fetchReading
    /\ fetchReading[key] > 0
    /\ fetchReading' = [fetchReading EXCEPT ![key] = @ - 1]
    /\ LET call == readFileLog[key][Len(readFileLog[key])]
       IN  IF failed \/ ~readFileOK(call.filePath, key[2])
           THEN UNCHANGED <<cacheLineHeap, inboundCacheLineCount,
                            cleanCacheLineLRU>>
           ELSE fetchLanded(key, readFileBuf(call.filePath, key[2]))
    /\ UNCHANGED <<now, nextTick, lastNonce, inodeMap, inodeLRU,
                   backendInodeMap, fetchQueued, readFileLog, readers,
                   lockHolder, backendCall, readAsked, dirVars, cfgVars, otherVars>>

\* fetch, from readFile's return: with an error the line is Clean and
\* empty, otherwise Clean with the bytes read. The store may fail a call.
fetchFinish(key, failed) ==
    /\ lockHolder = NULL
    /\ key \in DOMAIN fetchReading
    /\ fetchReading[key] > 0
    /\ fetchReading' = [fetchReading EXCEPT ![key] = @ - 1]
    /\ LET call == readFileLog[key][Len(readFileLog[key])]
       IN  IF failed \/ ~readFileOK(call.filePath, key[2])
           THEN fetchLanded(key, <<>>)
           ELSE fetchLanded(key, readFileBuf(call.filePath, key[2]))
    /\ UNCHANGED <<now, nextTick, lastNonce, inodeMap, inodeLRU,
                   backendInodeMap, fetchQueued, readFileLog, readers,
                   lockHolder, backendCall, readAsked, dirVars, cfgVars, otherVars>>

(* ------------- directory enumeration (fission.go, fs.go) --------------- *)

\* Every name a virtual child map may hold, in the key order of the sorted
\* map behind virtChildDirMap and virtChildFileMap.
NameOrder == <<".", "..", "a", "b", "c">>

\* The keys of a sorted map, in order: GetByIndex(i) is the (i+1)-th.
sortedKeys(m) == SelectSeq(NameOrder, LAMBDA x : x \in DOMAIN m)

HasPrefix(key, prefix) ==
    Len(key) >= Len(prefix) /\ SubSeq(key, 1, Len(prefix)) = prefix

\* What follows the prefix in a key.
TrimPrefix(key, prefix) == SubSeq(key, Len(prefix) + 1, Len(key))

\* The positions of the delimiter "/" in a string.
slashes(str) == {i \in 1..Len(str) : SubSeq(str, i, i) = "/"}

\* ListObjectsV2 with Prefix dirPath and Delimiter "/": the items under
\* dirPath in key order, a key with a further "/" rolled up into its common
\* prefix, listed once.
RECURSIVE listItems(_, _, _)
listItems(keys, dirPath, acc) ==
    IF keys = <<>> THEN acc
    ELSE IF ~HasPrefix(Head(keys), dirPath)
    THEN listItems(Tail(keys), dirPath, acc)
    ELSE LET rest == TrimPrefix(Head(keys), dirPath)
             item == IF slashes(rest) = {}
                     THEN [isDir |-> FALSE, basename |-> rest]
                     ELSE [isDir |-> TRUE,
                           basename |->
                             SubSeq(rest, 1,
                                    (CHOOSE i \in slashes(rest) :
                                        \A j \in slashes(rest) : i <= j) - 1)]
         IN  listItems(Tail(keys), dirPath,
                       IF item \in Range(acc) THEN acc ELSE Append(acc, item))

\* A listDirectoryOutput that is nil.
NoPage ==
    [ isNil |-> TRUE, subdirectory |-> <<>>, file |-> <<>>,
      nextContinuationToken |-> 0, isTruncated |-> FALSE ]

\* listDirectory: one page of at most maxItems items (all of them when
\* maxItems is 0) from the continuation token on; a token is the number of
\* items already listed.
listDirectory(dirPath, continuationToken, maxItems) ==
    LET items == listItems(bucket, dirPath, <<>>)
        last  == IF maxItems = 0 THEN Len(items)
                 ELSE Min(continuationToken + maxItems, Len(items))
        page  == SubSeq(items, continuationToken + 1, last)
        names(isDir) ==
            LET sel == SelectSeq(page, LAMBDA x : x.isDir = isDir)
            IN  [i \in 1..Len(sel) |-> sel[i].basename]
    IN  [ isNil |-> FALSE,
          subdirectory |-> names(TRUE),
          file |-> names(FALSE),
          nextContinuationToken |-> last,
          isTruncated |-> last < Len(items) ]

\* DoOpenDir's fhStruct for a backend's directory.
newDirFH ==
    [ listDirectoryInProgress |-> FALSE,
      listDirectorySequenceDone |-> FALSE,
      prevListDirectoryOutput |-> NoPage,
      prevListDirectoryOutputFileLen |-> 0,
      prevListDirectoryOutputStartingOffset |-> 0,
      nextListDirectoryOutput |-> NoPage,
      nextListDirectoryOutputFileLen |-> 0,
      nextListDirectoryOutputStartingOffset |-> 0,
      listDirectorySubdirectoryList |-> <<>> ]

\* createPseudoDirInode(false, basename) with the nonce it draws.
newPseudoDirInode(parentInode, basename, inodeNumber) ==
    [ inodeNumber       |-> inodeNumber,
      inodeType         |-> PseudoDir,
      parentInodeNumber |-> parentInode.inodeNumber,
      isVirt            |-> FALSE,
      objectPath        |-> parentInode.objectPath \o basename \o "/",
      basename          |-> basename,
      lTime             |-> now,
      fhMap             |-> {},
      virtChildDirMap   |-> [ x \in {".", ".."} |->
                                IF x = "." THEN inodeNumber
                                ELSE parentInode.inodeNumber ],
      virtChildFileMap  |-> EmptyMap,
      cache             |-> {} ]

\* touch(nil, nil) of inode n inside a handler's working state h.
touchIn(h, n) ==
    [h EXCEPT !.inodeMap[n] = touch(@),
              !.inodeLRU = touchLRU(@, touch(h.inodeMap[n]))]

\* findChildFileInode / findChildDirInode inside a handler's working state:
\* the child at path is found in backend.inodeMap and touched, or created
\* with a fresh nonce and pushed onto the LRU; the parent is touched.
\* Gives the new working state and the child's inode number.
findChildIn(h, parentNumber, basename, isDir) ==
    LET parentInode == h.inodeMap[parentNumber]
        path == IF isDir THEN parentInode.objectPath \o basename \o "/"
                ELSE parentInode.objectPath \o basename
        nonce == h.lastNonce + 1
        child == IF isDir THEN newPseudoDirInode(parentInode, basename, nonce)
                 ELSE newFileObjectInode(parentInode, basename, nonce)
    IN  IF path \in DOMAIN h.backendInodeMap
        THEN [ h |-> touchIn(touchIn(h, parentNumber), h.backendInodeMap[path]),
               Ino |-> h.backendInodeMap[path] ]
        ELSE [ h |-> touchIn([h EXCEPT
                                 !.lastNonce = nonce,
                                 !.inodeMap = Put(@, nonce, child),
                                 !.inodeLRU = Append(@, nonce),
                                 !.backendInodeMap = Put(@, path, nonce)],
                             parentNumber),
               Ino |-> nonce ]

\* statDirectory succeeded: findChildInode finds the PseudoDir at the path
\* with "/" appended in backend.inodeMap, or creates it; the deferred touches
\* run; DoLookup replies and unlocks.
findChildInodeDirFound ==
    /\ backendCall.op = "statDirectory"
    /\ statDirectory(backendCall.path)
    /\ LET dirPath == backendCall.path \o "/"
           parentInode == touch(confirmedParent(inodeMap[backendCall.NodeID],
                                                dirPath, backendCall.basename))
           confirmed == confirmedInodeMap(dirPath, PseudoDir)
           exists == /\ dirPath \in DOMAIN backendInodeMap
                     /\ inodeMap[backendInodeMap[dirPath]].inodeType = PseudoDir
           childInode ==
               IF exists
               THEN touch(confirmed[backendInodeMap[dirPath]])
               ELSE newPseudoDirInode(parentInode, backendCall.basename, fetchNonce)
       IN  /\ exists \/ lastNonce < MaxNonce
           /\ lastNonce' = IF exists THEN lastNonce ELSE fetchNonce
           /\ inodeMap' = Put(Put(confirmed, parentInode.inodeNumber, parentInode),
                              childInode.inodeNumber, childInode)
           /\ inodeLRU' = touchLRU(touchLRU(inodeLRU, parentInode), childInode)
           /\ backendInodeMap' =
                Put(backendInodeMap, dirPath, childInode.inodeNumber)
    /\ lockHolder' = NULL
    /\ backendCall' = NoCall
    /\ UNCHANGED <<now, nextTick, cacheLineHeap, cleanCacheLineLRU,
                   inboundCacheLineCount, fetchQueued, fetchReading,
                   readFileLog, readers, readAsked, dirVars, cfgVars, otherVars>>

\* The FUSE ABI's directory entry sizes (the fission package's constants).
DirEntFixedPortionSize == 24

DirEntPlusFixedPortionSize == 152

DirEntAlignment == 8

\* appendToReadDirOut / appendToReadDirPlusOut: the entry's size.
dirEntSize(plus, basename) ==
    (((IF plus THEN DirEntPlusFixedPortionSize ELSE DirEntFixedPortionSize)
        + Len(basename) + DirEntAlignment - 1) \div DirEntAlignment)
    * DirEntAlignment

\* DoReadDir's clamp at Restart: an offset before the retained previous
\* page is moved up to that page's first entry.
clampOffset(fh, curOffset) ==
    IF curOffset < fh.prevListDirectoryOutputStartingOffset
    THEN fh.prevListDirectoryOutputStartingOffset
    ELSE curOffset

\* DoReadDir's loop on a backend's directory, from the working state h (the
\* inode table, fh, curOffset, the reply so far): it ends with result
\* "fetch" when the next page must be listed, "return" when the entries
\* are exhausted or the next does not fit the reply, or "fatal" when a
\* virtual child's inode number is not in globals.inodeMap (logger.Fatalf).
RECURSIVE readDirLoop(_, _)
readDirLoop(h, P) ==
    LET fh == h.fh
        parentInode == h.inodeMap[P.NodeID]
        prevCap == fh.nextListDirectoryOutputStartingOffset
        nextCap == prevCap + fh.nextListDirectoryOutputFileLen
        subdirCap == nextCap + Len(fh.listDirectorySubdirectoryList)
        virtDirCap == subdirCap + Cardinality(DOMAIN parentInode.virtChildDirMap)
        virtFileCap == virtDirCap + Cardinality(DOMAIN parentInode.virtChildFileMap)
        cur == h.curOffset
    IN
    IF ~fh.listDirectorySequenceDone /\ cur >= nextCap
    THEN [h EXCEPT !.result = "fetch"]
    ELSE IF cur >= virtFileCap
    THEN [h EXCEPT !.result = "return"]
    ELSE
      LET basename ==
              CASE cur < prevCap ->
                     fh.prevListDirectoryOutput.file[
                        cur - fh.prevListDirectoryOutputStartingOffset + 1]
                [] cur >= prevCap /\ cur < nextCap ->
                     fh.nextListDirectoryOutput.file[cur - prevCap + 1]
                [] cur >= nextCap /\ cur < subdirCap ->
                     fh.listDirectorySubdirectoryList[cur - nextCap + 1]
                [] cur >= subdirCap /\ cur < virtDirCap ->
                     sortedKeys(parentInode.virtChildDirMap)[cur - subdirCap + 1]
                [] OTHER ->
                     sortedKeys(parentInode.virtChildFileMap)[cur - virtDirCap + 1]
          found ==
              CASE cur < nextCap -> findChildIn(h, P.NodeID, basename, FALSE)
                [] cur >= nextCap /\ cur < subdirCap ->
                     findChildIn(h, P.NodeID, basename, TRUE)
                [] cur >= subdirCap /\ cur < virtDirCap ->
                     [h |-> h, Ino |-> parentInode.virtChildDirMap[basename]]
                [] OTHER ->
                     [h |-> h, Ino |-> parentInode.virtChildFileMap[basename]]
          size == dirEntSize(P.plus, basename)
          h2 == [found.h EXCEPT !.curOffset = cur + 1]
      IN  IF cur >= subdirCap /\ found.Ino \notin DOMAIN h.inodeMap
          THEN [h EXCEPT !.result = "fatal"]
          ELSE IF h.outSize + size > P.Size
          THEN [h2 EXCEPT !.result = "return"]
          ELSE readDirLoop(
                  [h2 EXCEPT !.out = Append(@, [ Ino |-> found.Ino,
                                                  Off |-> cur + 1,
                                                  Name |-> basename ]),
                             !.outSize = @ + size],
                  P)

\* DoReadDir's loop on the FUSE root: the entries of virtChildDirMap by index.
RECURSIVE readDirRootLoop(_, _)
readDirRootLoop(h, P) ==
    LET parentInode == h.inodeMap[P.NodeID]
        cur == h.curOffset
    IN
    IF cur >= Cardinality(DOMAIN parentInode.virtChildDirMap)
    THEN [h EXCEPT !.result = "return"]
    ELSE
      LET basename == sortedKeys(parentInode.virtChildDirMap)[cur + 1]
          size == dirEntSize(P.plus, basename)
          h2 == [h EXCEPT !.curOffset = cur + 1]
      IN  IF parentInode.virtChildDirMap[basename] \notin DOMAIN h.inodeMap
          THEN [h EXCEPT !.result = "fatal"]
          ELSE IF h.outSize + size > P.Size
          THEN [h2 EXCEPT !.result = "return"]
          ELSE readDirRootLoop(
                  [h2 EXCEPT !.out = Append(@, [ Ino |-> parentInode.virtChildDirMap[basename],
                                                  Off |-> cur + 1,
                                                  Name |-> basename ]),
                             !.outSize = @ + size],
                  P)

\* The backend's directory_page_size.
directoryPageSize == 1

\* The request sizes the kernel sends, in entries of a short name.
ReadDirSlots == {1, 4}

\* The inode numbers DoOpenDir may still draw a handle at.
MaxDirNonce == 9

\* DoReadDir from its Restart label: the checks, then the loop of the
\* directory's kind.
readDirRestart(h, P) ==
    IF P.NodeID \notin DOMAIN h.inodeMap
    THEN [h EXCEPT !.result = "return", !.errno = ENOENT]
    ELSE IF h.inodeMap[P.NodeID].inodeType = FileObject
    THEN [h EXCEPT !.result = "return", !.errno = ENOTDIR]
    ELSE IF P.FH \notin h.inodeMap[P.NodeID].fhMap
    THEN [h EXCEPT !.result = "return", !.errno = EBADF]
    ELSE IF h.inodeMap[P.NodeID].inodeType = FUSERootDir
    THEN readDirRootLoop(h, P)
    ELSE IF h.fh.listDirectoryInProgress
    THEN [h EXCEPT !.result = "return", !.errno = EACCES]
    ELSE readDirLoop([h EXCEPT !.curOffset = clampOffset(h.fh, @)], P)

\* "Fetch the next listDirectoryOutput", up to the call: the next page
\* becomes the previous one and the listing is marked in progress.
shiftPages(fh) ==
    [ (IF fh.nextListDirectoryOutput.isNil THEN fh
       ELSE [fh EXCEPT
               !.prevListDirectoryOutput = fh.nextListDirectoryOutput,
               !.prevListDirectoryOutputFileLen = fh.nextListDirectoryOutputFileLen,
               !.prevListDirectoryOutputStartingOffset =
                   fh.nextListDirectoryOutputStartingOffset,
               !.nextListDirectoryOutput = NoPage,
               !.nextListDirectoryOutputFileLen = 0])
      EXCEPT !.listDirectoryInProgress = TRUE ]

\* The listDirectoryInput of the call.
listDirectoryInputOf(fh, parentInode) ==
    [ continuationToken |-> IF fh.prevListDirectoryOutput.isNil THEN 0
                            ELSE fh.prevListDirectoryOutput.nextContinuationToken,
      maxItems |-> directoryPageSize,
      dirPath  |-> parentInode.objectPath ]

\* What DoReadDir leaves when its loop stops: the inode table it changed,
\* and either the reply, or the listDirectory call it makes with the lock
\* released (parentInode is the pointer it keeps across the call), or the
\* daemon's exit.
readDirOutcome(h0, P) ==
    LET h == readDirRestart(h0, P)
    IN  /\ inodeMap' = h.inodeMap
        /\ backendInodeMap' = h.backendInodeMap
        /\ inodeLRU' = h.inodeLRU
        /\ lastNonce' = h.lastNonce
        /\ IF h.result = "fetch"
           THEN /\ fhHeap' = Put(fhHeap, P.FH, shiftPages(h.fh))
                /\ readDirCall' =
                     [ pc |-> "listDirectory", P |-> P,
                       curOffset |-> h.curOffset, out |-> h.out,
                       outSize |-> h.outSize, errno |-> OK,
                       parentInode |-> h.inodeMap[P.NodeID],
                       input |-> listDirectoryInputOf(shiftPages(h.fh),
                                                      h.inodeMap[P.NodeID]) ]
           ELSE IF h.result = "fatal"
           THEN /\ fhHeap' = fhHeap
                /\ readDirCall' = Fatal
           ELSE /\ fhHeap' = IF P.FH \in DOMAIN fhHeap
                             THEN Put(fhHeap, P.FH, h.fh) ELSE fhHeap
                /\ readDirCall' = [ pc |-> "reply", out |-> h.out,
                                    errno |-> h.errno ]

\* The handler's working state at entry.
readDirEntry(FH, Offset) ==
    [ inodeMap |-> inodeMap, backendInodeMap |-> backendInodeMap,
      inodeLRU |-> inodeLRU, lastNonce |-> lastNonce,
      fh |-> IF FH \in DOMAIN fhHeap THEN fhHeap[FH] ELSE newDirFH,
      curOffset |-> Offset, out |-> <<>>, outSize |-> 0,
      result |-> "return", errno |-> OK ]

\* DoOpenDir: a handle with an empty listing state joins the directory's
\* fhMap. The kernel starts an enumeration at offset 0.
DoOpenDir(NodeID) ==
    /\ lockHolder = NULL
    /\ scan.state = "idle"
    /\ lastNonce < MaxDirNonce
    /\ NodeID \in DOMAIN inodeMap
    /\ inodeMap[NodeID].inodeType # FileObject
    /\ lastNonce' = fetchNonce
    /\ fhHeap' = Put(fhHeap, fetchNonce, newDirFH)
    /\ inodeMap' = [inodeMap EXCEPT ![NodeID].fhMap = @ \cup {fetchNonce}]
    /\ scan' = [ state |-> "open", NodeID |-> NodeID, FH |-> fetchNonce,
                 pos |-> 0, seen |-> <<>>, paused |-> FALSE ]
    /\ UNCHANGED <<now, nextTick, inodeLRU, backendInodeMap, cacheLineHeap,
                   cleanCacheLineLRU, inboundCacheLineCount, fetchQueued,
                   fetchReading, readFileLog, readers, lockHolder,
                   backendCall, readAsked, readDirCall, cfgVars, otherVars>>

\* DoReadDir (plus = FALSE) or DoReadDirPlus (plus = TRUE) at the offset the
\* kernel resumes from, up to its return or its first listDirectory call.
DoReadDir(Slots, plus) ==
    /\ lockHolder = NULL
    /\ scan.state = "open"
    /\ readDirCall.pc = "idle"
    /\ readDirOutcome(readDirEntry(scan.FH, scan.pos),
                      [ NodeID |-> scan.NodeID, FH |-> scan.FH,
                        Size |-> Slots * dirEntSize(plus, "f"),
                        plus |-> plus ])
    /\ UNCHANGED <<now, nextTick, cacheLineHeap, cleanCacheLineLRU,
                   inboundCacheLineCount, fetchQueued, fetchReading,
                   readFileLog, readers, lockHolder, backendCall, readAsked,
                   scan, cfgVars, otherVars>>

\* The subdirectories of a page: findChildDirInode for each, and each joins
\* listDirectorySubdirectoryList once.
RECURSIVE rememberSubdirectories(_, _, _)
rememberSubdirectories(h, NodeID, subdirectory) ==
    IF subdirectory = <<>> THEN h
    ELSE LET found == findChildIn(h, NodeID, Head(subdirectory), TRUE)
             list  == found.h.fh.listDirectorySubdirectoryList
         IN  rememberSubdirectories(
                 [found.h EXCEPT !.fh.listDirectorySubdirectoryList =
                     IF Head(subdirectory) \in Range(list) THEN list
                     ELSE Append(list, Head(subdirectory))],
                 NodeID, Tail(subdirectory))

\* The page bookkeeping after a successful listDirectory.
recordPage(fh, listDirectoryOutput) ==
    IF fh.prevListDirectoryOutput.isNil
    THEN [fh EXCEPT
            !.listDirectoryInProgress = FALSE,
            !.listDirectorySequenceDone = ~listDirectoryOutput.isTruncated,
            !.prevListDirectoryOutput = listDirectoryOutput,
            !.prevListDirectoryOutputFileLen = Len(listDirectoryOutput.file),
            !.prevListDirectoryOutputStartingOffset = 0,
            !.nextListDirectoryOutput = NoPage,
            !.nextListDirectoryOutputFileLen = 0,
            !.nextListDirectoryOutputStartingOffset = Len(listDirectoryOutput.file)]
    ELSE [fh EXCEPT
            !.listDirectoryInProgress = FALSE,
            !.listDirectorySequenceDone = ~listDirectoryOutput.isTruncated,
            !.nextListDirectoryOutput = listDirectoryOutput,
            !.nextListDirectoryOutputFileLen = Len(listDirectoryOutput.file),
            !.nextListDirectoryOutputStartingOffset =
                fh.prevListDirectoryOutputStartingOffset
                    + fh.prevListDirectoryOutputFileLen]

\* listDirectory returns to DoReadDir, which takes the lock again: on an
\* error it replies EACCES; otherwise it records the page in fh, runs
\* findChildDirInode on parentInode for each subdirectory of the page, and
\* only then goes to Restart, where the inode and the handle are looked up
\* again. parentInode and fh are the pointers taken before the call: when
\* the inode has left globals.inodeMap meanwhile, parentInode is the
\* removed inodeStruct, which stays out of the table.
listDirectoryReturn(failed) ==
    /\ lockHolder = NULL
    /\ readDirCall.pc = "listDirectory"
    /\ LET P  == readDirCall.P
           fh == fhHeap[P.FH]
           listDirectoryOutput ==
               listDirectory(readDirCall.input.dirPath,
                             readDirCall.input.continuationToken,
                             readDirCall.input.maxItems)
           present == P.NodeID \in DOMAIN inodeMap
           h0 == [ inodeMap |-> IF present THEN inodeMap
                                ELSE Put(inodeMap, P.NodeID, readDirCall.parentInode),
                   backendInodeMap |-> backendInodeMap,
                   inodeLRU |-> inodeLRU, lastNonce |-> lastNonce,
                   fh |-> recordPage(fh, listDirectoryOutput),
                   curOffset |-> readDirCall.curOffset,
                   out |-> readDirCall.out, outSize |-> readDirCall.outSize,
                   result |-> "return", errno |-> OK ]
           h1 == rememberSubdirectories(h0, P.NodeID,
                                        listDirectoryOutput.subdirectory)
       IN  IF failed
           THEN /\ fhHeap' = Put(fhHeap, P.FH,
                                 [fh EXCEPT !.listDirectoryInProgress = FALSE])
                /\ readDirCall' = [ pc |-> "reply", out |-> readDirCall.out,
                                    errno |-> EACCES ]
                /\ UNCHANGED <<inodeMap, backendInodeMap, inodeLRU, lastNonce>>
           ELSE readDirOutcome(
                    IF present THEN h1
                    ELSE [h1 EXCEPT !.inodeMap = Del(@, P.NodeID)],
                    P)
    /\ UNCHANGED <<now, nextTick, cacheLineHeap, cleanCacheLineLRU,
                   inboundCacheLineCount, fetchQueued, fetchReading,
                   readFileLog, readers, lockHolder, backendCall, readAsked,
                   scan, cfgVars, otherVars>>

\* The names of the first k entries of a reply.
namesOf(out, k) == [i \in 1..k |-> out[i].Name]

\* The kernel hands the first k entries of a reply to the application and
\* will resume at the cookie of the last of them; the rest of the reply is
\* dropped.
KernelConsume(k) ==
    /\ readDirCall.pc = "reply"
    /\ readDirCall.errno = OK
    /\ k \in 1..Len(readDirCall.out)
    /\ scan' = [scan EXCEPT !.seen = @ \o namesOf(readDirCall.out, k),
                            !.pos = readDirCall.out[k].Off,
                            !.paused = @ \/ k < Len(readDirCall.out)]
    /\ readDirCall' = IdleReadDir
    /\ UNCHANGED <<fsVars, fhHeap, cfgVars, otherVars>>

\* An empty reply ends the enumeration; an error fails it.
KernelEnd ==
    /\ readDirCall.pc = "reply"
    /\ readDirCall.errno # OK \/ readDirCall.out = <<>>
    /\ scan' = [scan EXCEPT !.state = IF readDirCall.errno = OK
                                      THEN "done" ELSE "failed"]
    /\ readDirCall' = IdleReadDir
    /\ UNCHANGED <<fsVars, fhHeap, cfgVars, otherVars>>

\* DoReleaseDir of the enumeration's handle.
DoReleaseDir ==
    /\ lockHolder = NULL
    /\ scan.state \in {"done", "failed"}
    /\ scan.NodeID \in DOMAIN inodeMap
    /\ scan.FH \in inodeMap[scan.NodeID].fhMap
    /\ inodeMap[scan.NodeID].inodeType # FileObject
    /\ \/ inodeMap[scan.NodeID].inodeType = FUSERootDir
       \/ ~fhHeap[scan.FH].listDirectoryInProgress
    /\ inodeMap' = [inodeMap EXCEPT ![scan.NodeID].fhMap = @ \ {scan.FH}]
    /\ fhHeap' = Del(fhHeap, scan.FH)
    /\ scan' = IdleScan
    /\ UNCHANGED <<now, nextTick, lastNonce, inodeLRU, backendInodeMap,
                   cacheLineHeap, cleanCacheLineLRU, inboundCacheLineCount,
                   fetchQueued, fetchReading, readFileLog, readers,
                   lockHolder, backendCall, readAsked, readDirCall, cfgVars, otherVars>>

(* ------------------ configuration reload (config.go, main.go) ---------- *)

\* The dir_name values the documents use.
DirNames == {"b", "c"}

\* The global settings, in the order checkConfigFile compares them.
GlobalSettings ==
    << "mscp_version", "mountname", "mountpoint", "uid", "gid", "dir_perm",
       "allow_other", "max_write", "entry_attr_ttl", "evictable_inode_ttl",
       "cache_line_size", "cache_lines", "dirty_cache_lines_flush_trigger",
       "dirty_cache_lines_max", "auto_sighup_interval" >>

\* A backend's settings, in the order checkConfigFile compares them.
BackendSettings ==
    << "readonly", "flush_on_close", "uid", "gid", "dir_perm", "file_perm",
       "directory_page_size", "multipart_cache_line_threshold",
       "upload_part_cache_lines", "upload_part_concurrency",
       "bucket_container_name", "prefix", "trace_level", "backend_type",
       "S3.access_key_id", "S3.secret_access_key", "S3.region", "S3.endpoint",
       "S3.allow_http", "S3.skip_tls_certificate_verify",
       "S3.virtual_hosted_style_request", "S3.unsigned_payload",
       "S3.retry_base_delay", "S3.retry_next_delay_multiplier",
       "S3.retry_max_delay" >>

\* mscp_version 1, the format checkConfigFile reads without translation.
MSCPVersionOne == 1

\* The global settings of the document main started with. A value is a
\* number: a boolean is 0 or 1, a string is its index among the strings the
\* documents use. The percentages are the defaults; the periodic check is on.
StartupSettings ==
    [ s \in Range(GlobalSettings) |->
        CASE s = "mscp_version" -> MSCPVersionOne
          [] s = "evictable_inode_ttl" -> evictableInodeTTL
          [] s = "cache_line_size" -> cacheLineSize
          [] s = "cache_lines" -> cacheLines
          [] s = "dirty_cache_lines_flush_trigger" -> 80
          [] s = "dirty_cache_lines_max" -> 90
          [] s = "auto_sighup_interval" -> 1
          [] OTHER -> 0 ]

\* A backend's settings as the documents first write them.
BackendDefaults ==
    [ s \in Range(BackendSettings) |->
        CASE s = "directory_page_size" -> directoryPageSize
          [] s = "S3.retry_next_delay_multiplier" -> 2
          [] OTHER -> 0 ]

\* The document main started with: the one backend "b".
StartupDocument ==
    [ wellFormed |-> TRUE,
      settings   |-> StartupSettings,
      backends   |-> [ dirName \in {"b"} |-> BackendDefaults ] ]

\* The values an edit may give a global setting.
GlobalValues(s) ==
    CASE s = "dirty_cache_lines_flush_trigger" -> {80, 81, 91}
      [] s = "dirty_cache_lines_max" -> {90, 100}
      [] OTHER -> {StartupSettings[s], StartupSettings[s] + 1}

\* The values an edit may give a backend's setting.
BackendValues(s) == {BackendDefaults[s], BackendDefaults[s] + 1}

\* parseMilliseconds and parseSeconds: a time.Duration, in nanoseconds.
parseMilliseconds(u) == u * 1000000

parseSeconds(u) == u * 1000000000

\* checkConfigFile's reading of the document: the first error in the order
\* of the code, or the (local) config.
parseConfigFile(doc) ==
    LET v == doc.settings
        settings ==
            [ s \in Range(GlobalSettings) |->
                CASE s = "entry_attr_ttl" -> parseMilliseconds(v[s])
                  [] s = "evictable_inode_ttl" -> parseMilliseconds(v[s])
                  [] s = "dirty_cache_lines_flush_trigger" ->
                        (v["cache_lines"] * v[s]) \div 100
                  [] s = "dirty_cache_lines_max" ->
                        (v["cache_lines"] * v[s]) \div 100
                  [] s = "auto_sighup_interval" -> parseSeconds(v[s])
                  [] OTHER -> v[s] ]
        backends ==
            [ dirName \in DOMAIN doc.backends |->
                [ s \in Range(BackendSettings) |->
                    CASE s = "S3.retry_base_delay" ->
                            parseMilliseconds(doc.backends[dirName][s])
                      [] s = "S3.retry_max_delay" ->
                            parseMilliseconds(doc.backends[dirName][s])
                      [] OTHER -> doc.backends[dirName][s] ] ]
        problem ==
            CASE ~doc.wellFormed -> "unmarshal failed"
              [] doc.wellFormed /\ v["mscp_version"] > MSCPVersionOne ->
                    "unsupported mscp_version"
              [] OTHER ->
                 IF v["evictable_inode_ttl"] < v["entry_attr_ttl"]
                 THEN "evictable_inode_ttl should be at least entry_attr_ttl"
                 ELSE IF v["dirty_cache_lines_flush_trigger"] > 100
                 THEN "dirty_cache_lines_flush_trigger is a percentage so must be <= 100"
                 ELSE IF v["dirty_cache_lines_max"] > 100
                 THEN "dirty_cache_lines_max is a percentage so must be <= 100"
                 ELSE IF v["dirty_cache_lines_flush_trigger"] > v["dirty_cache_lines_max"]
                 THEN "dirty_cache_lines_flush_trigger must be <= dirty_cache_lines_max"
                 ELSE OK
    IN  [ err |-> problem,
          config |-> [settings |-> settings, backends |-> backends] ]

\* The first setting of the order in which two configurations differ, or
\* NULL when they agree on all of them.
firstChanged(order, old, new) ==
    LET changed == {i \in 1..Len(order) : old[order[i]] # new[order[i]]}
    IN  IF changed = {} THEN NULL
        ELSE order[CHOOSE i \in changed : \A j \in changed : i <= j]

\* checkConfigFile once globals.config is set: the error it returns and the
\* queues it leaves. Nothing is queued unless every check passed.
checkConfigFile ==
    LET parsed == parseConfigFile(configFile)
        new == parsed.config
        changedGlobal == firstChanged(GlobalSettings, config.settings, new.settings)
        common == DOMAIN config.backends \cap DOMAIN new.backends
        changedBackends ==
            {dirName \in common :
                firstChanged(BackendSettings,
                             config.backends[dirName].settings,
                             new.backends[dirName]) # NULL}
        unchangedQueues ==
            [backendsToMount |-> backendsToMount,
             backendsToUnmount |-> backendsToUnmount]
    IN  IF parsed.err # OK
        THEN [err |-> parsed.err] @@ unchangedQueues
        ELSE IF changedGlobal # NULL
        THEN [err |-> "cannot change " \o changedGlobal \o " via SIGHUP"]
                 @@ unchangedQueues
        ELSE IF changedBackends # {}
        THEN [err |-> "cannot change "
                        \o firstChanged(BackendSettings,
                              config.backends[CHOOSE d \in changedBackends : TRUE].settings,
                              new.backends[CHOOSE d \in changedBackends : TRUE])
                        \o " in backends"]
                 @@ unchangedQueues
        ELSE [ err |-> OK,
               backendsToUnmount |->
                   [ dirName \in DOMAIN backendsToUnmount
                                   \cup (DOMAIN config.backends \ DOMAIN new.backends) |->
                       IF dirName \in DOMAIN config.backends \ DOMAIN new.backends
                       THEN config.backends[dirName]
                       ELSE backendsToUnmount[dirName] ],
               backendsToMount |->
                   [ dirName \in DOMAIN backendsToMount
                                   \cup (DOMAIN new.backends \ DOMAIN config.backends) |->
                       IF dirName \in DOMAIN new.backends \ DOMAIN config.backends
                       THEN [ document |-> configFile.backends[dirName],
                              settings |-> new.backends[dirName] ]
                       ELSE backendsToMount[dirName] ] ]

\* The settings in which a document departs from the one main started
\* with: the global ones, and those of each backend it lists.
departures(doc) ==
    {<<"", s>> : s \in {x \in Range(GlobalSettings) :
                           doc.settings[x] # StartupSettings[x]}}
    \cup {p \in (DOMAIN doc.backends) \X Range(BackendSettings) :
             doc.backends[p[1]][p[2]] # BackendDefaults[p[2]]}

\* The settings the edits touch.
EditedGlobalSettings ==
    {"uid", "dirty_cache_lines_flush_trigger", "dirty_cache_lines_max"}

EditedBackendSettings == {"readonly"}

\* How many settings an edited document may depart in.
MaxDepartures == 1

\* How far mounting may push the nonces.
MaxMountNonce == 4

\* An operator rewrites the document: one global setting changes.
EditGlobalSetting(s, v) ==
    /\ configFile.settings[s] # v
    /\ configFile' = [configFile EXCEPT !.settings[s] = v]
    /\ Cardinality(departures(configFile')) <= MaxDepartures
    /\ UNCHANGED <<otherVars, fsVars, dirVars, config, backendsToMount,
                   backendsToUnmount, err>>

\* ... one setting of a backend changes.
EditBackendSetting(dirName, s, v) ==
    /\ dirName \in DOMAIN configFile.backends
    /\ configFile.backends[dirName][s] # v
    /\ configFile' = [configFile EXCEPT !.backends[dirName][s] = v]
    /\ Cardinality(departures(configFile')) <= MaxDepartures
    /\ UNCHANGED <<otherVars, fsVars, dirVars, config, backendsToMount,
                   backendsToUnmount, err>>

\* ... a backend is added.
AddBackend(dirName) ==
    /\ dirName \notin DOMAIN configFile.backends
    /\ configFile' = [configFile EXCEPT
                         !.backends = Put(@, dirName, BackendDefaults)]
    /\ UNCHANGED <<otherVars, fsVars, dirVars, config, backendsToMount,
                   backendsToUnmount, err>>

\* ... a backend is removed.
RemoveBackend(dirName) ==
    /\ dirName \in DOMAIN configFile.backends
    /\ configFile' = [configFile EXCEPT !.backends = Del(@, dirName)]
    /\ UNCHANGED <<otherVars, fsVars, dirVars, config, backendsToMount,
                   backendsToUnmount, err>>

\* ... the document is left malformed, or made well-formed again.
Scribble ==
    /\ configFile' = [configFile EXCEPT !.wellFormed = ~@]
    /\ UNCHANGED <<otherVars, fsVars, dirVars, config, backendsToMount,
                   backendsToUnmount, err>>

\* The daemon's tables as the mount and unmount processing works on them.
mountTables ==
    [ inodeMap |-> inodeMap, inodeLRU |-> inodeLRU,
      backendInodeMap |-> backendInodeMap, lastNonce |-> lastNonce,
      backends |-> config.backends ]

\* inodeMapEmpty: every inode of the backend leaves globals.inodeMap and the
\* LRU. Only the backend mounted as "b" has inodes here (backendInodeMap).
inodeMapEmpty(g, dirName) ==
    IF dirName # "b" THEN g
    ELSE [g EXCEPT
            !.inodeMap = [n \in DOMAIN g.inodeMap \ Range(g.backendInodeMap)
                            |-> g.inodeMap[n]],
            !.inodeLRU = SelectSeq(@, LAMBDA n : n \notin Range(g.backendInodeMap)),
            !.backendInodeMap = EmptyMap]

\* processNextToUnmountList: each queued backend's inodes and root inode
\* leave the table, its name leaves the mount root and globals.config.
RECURSIVE processNextToUnmountList(_, _)
processNextToUnmountList(g, queue) ==
    IF DOMAIN queue = {} THEN g
    ELSE LET dirName == CHOOSE d \in DOMAIN queue : TRUE
             emptied == inodeMapEmpty(g, dirName)
         IN  processNextToUnmountList(
                 [emptied EXCEPT
                     !.inodeMap =
                         [Del(@, queue[dirName].inodeNumber) EXCEPT
                             ![FUSERootDirInodeNumber].virtChildDirMap =
                                 Del(@, dirName)],
                     !.backends = Del(@, dirName)],
                 Del(queue, dirName))

\* The BackendRootDir inode processToMountList makes.
newBackendRootDirInode(dirName, inodeNumber) ==
    [ inodeNumber       |-> inodeNumber,
      inodeType         |-> BackendRootDir,
      parentInodeNumber |-> FUSERootDirInodeNumber,
      isVirt            |-> FALSE,
      objectPath        |-> "",
      basename          |-> dirName,
      lTime             |-> 0,
      fhMap             |-> {},
      virtChildDirMap   |-> [ x \in {".", ".."} |->
                                IF x = "." THEN inodeNumber
                                ELSE FUSERootDirInodeNumber ],
      virtChildFileMap  |-> EmptyMap,
      cache             |-> {} ]

\* processToMountList, the queue taken in the given order (the order of a
\* map's range): each backend gets a root inode under a fresh nonce, its
\* name joins the mount root, and it joins globals.config.backends.
\* setupContext is taken to succeed.
RECURSIVE processToMountList(_, _, _)
processToMountList(g, queue, order) ==
    IF order = <<>> THEN g
    ELSE LET dirName == Head(order)
             nonce == g.lastNonce + 1
         IN  processToMountList(
                 [g EXCEPT
                     !.lastNonce = nonce,
                     !.inodeMap =
                         [Put(@, nonce, newBackendRootDirInode(dirName, nonce))
                             EXCEPT ![FUSERootDirInodeNumber].virtChildDirMap =
                                        Put(@, dirName, nonce)],
                     !.backends = Put(@, dirName,
                                      [ document |-> queue[dirName].document,
                                        settings |-> queue[dirName].settings,
                                        inodeNumber |-> nonce ])],
                 queue, Tail(order))

\* The orders a range over a map of these dir names may take.
rangeOrders(queue) ==
    {order \in [1..Cardinality(DOMAIN queue) -> DOMAIN queue] :
        Range(order) = DOMAIN queue}

\* main's SIGHUP case: checkConfigFile, whose error is only logged, then
\* processNextToUnmountList and processToMountList.
SIGHUP(order) ==
    /\ lockHolder = NULL
    /\ LET checked == checkConfigFile
           unmounted == processNextToUnmountList(mountTables,
                                                 checked.backendsToUnmount)
           mounted == processToMountList(unmounted, checked.backendsToMount,
                                         order)
       IN  /\ order \in rangeOrders(checked.backendsToMount)
           /\ order = <<>> \/ lastNonce + Len(order) <= MaxMountNonce
           /\ err' = checked.err
           /\ inodeMap' = mounted.inodeMap
           /\ inodeLRU' = mounted.inodeLRU
           /\ backendInodeMap' = mounted.backendInodeMap
           /\ lastNonce' = mounted.lastNonce
           /\ config' = [config EXCEPT !.backends = mounted.backends]
           /\ backendsToMount' = EmptyMap
           /\ backendsToUnmount' = EmptyMap
    /\ UNCHANGED <<now, nextTick, cacheLineHeap, cleanCacheLineLRU,
                   inboundCacheLineCount, fetchQueued, fetchReading,
                   readFileLog, readers, lockHolder, backendCall, readAsked,
                   dirVars, configFile, otherVars>>

\* main's ticker case, every auto_sighup_interval: checkConfigFile alone.
ticker ==
    /\ config.settings["auto_sighup_interval"] # 0
    /\ LET checked == checkConfigFile
       IN  /\ err' = checked.err
           /\ backendsToMount' = checked.backendsToMount
           /\ backendsToUnmount' = checked.backendsToUnmount
    /\ UNCHANGED <<otherVars, fsVars, dirVars, configFile, config>>

(* ---------------- the S3 backend context (config.go, S3 backend) ------- *)

\* No error.
nil == [nil |-> TRUE]

\* The retry settings before checkConfigFile has parsed them.
NoBackendS3 == [parsed |-> FALSE]

\* time.Millisecond, in nanoseconds.
Millisecond == 1000000

\* http.StatusTooManyRequests.
StatusTooManyRequests == 429

\* A time.Duration of the retry settings is written <<ms, ns>>: ms whole
\* milliseconds and ns further nanoseconds, ns < Millisecond.
durationOf(nanoseconds) ==
    <<nanoseconds \div Millisecond, nanoseconds % Millisecond>>

\* d1 <= d2 on time.Duration.
durationLeq(d1, d2) == d1[1] < d2[1] \/ (d1[1] = d2[1] /\ d1[2] <= d2[2])

\* time.Duration(float64(d) * multiplier) for the multiplier num / den: the
\* product, truncated toward zero to whole nanoseconds.
nextDelay(d, multiplier) ==
    LET num == multiplier[1]
        den == multiplier[2]
        q   == d[1] * num
        x   == ((q % den) * Millisecond + d[2] * num) \div den
    IN  <<(q \div den) + (x \div Millisecond), x % Millisecond>>

\* checkConfigFile's loop: while nextRetryDelay <= retryMaxDelay it appends
\* nextRetryDelay to retryDelay and multiplies it. ended is FALSE when the
\* loop is still appending after MaxRetryDelays delays.
RECURSIVE retryDelayLoop(_, _, _, _)
retryDelayLoop(nextRetryDelay, multiplier, retryMaxDelay, retryDelay) ==
    IF ~durationLeq(nextRetryDelay, retryMaxDelay)
    THEN [retryDelay |-> retryDelay, ended |-> TRUE]
    ELSE IF Len(retryDelay) >= MaxRetryDelays
    THEN [retryDelay |-> retryDelay, ended |-> FALSE]
    ELSE retryDelayLoop(nextDelay(nextRetryDelay, multiplier), multiplier,
                        retryMaxDelay, Append(retryDelay, nextRetryDelay))

\* The retry_next_delay_multiplier values of the document, as num / den;
\* the first is below 1.0.
Multipliers == {<<1, 2>>, <<1, 1>>, <<3, 2>>, <<2, 1>>}

\* checkConfigFile on an S3 backend's retry settings: retry_base_delay and
\* retry_max_delay in milliseconds. A multiplier below 1.0 is an error and
\* the backend is not configured.
checkConfigFileS3(retry_base_delay, multiplier, retry_max_delay) ==
    /\ backendS3 = NoBackendS3
    /\ multiplier[1] >= multiplier[2]
    /\ LET retryBaseDelay == durationOf(parseMilliseconds(retry_base_delay))
           retryMaxDelay == durationOf(parseMilliseconds(retry_max_delay))
           loop == IF retryBaseDelay # durationOf(0)
                   THEN retryDelayLoop(retryBaseDelay, multiplier,
                                       retryMaxDelay, <<>>)
                   ELSE [retryDelay |-> <<>>, ended |-> TRUE]
       IN  backendS3' = [ retryBaseDelay |-> retryBaseDelay,
                          retryNextDelayMultiplier |-> multiplier,
                          retryMaxDelay |-> retryMaxDelay,
                          retryDelay |-> loop.retryDelay,
                          ended |-> loop.ended ]
    /\ UNCHANGED <<fsVars, dirVars, cfgVars, renameErrno, s3Store, s3Call,
                   telemetryVars, extVars>>

\* MaxAttempts: len(retryDelay) + 1.
MaxAttempts == Len(backendS3.retryDelay) + 1

\* An error of the SDK: one that is an awshttp.ResponseError with its HTTP
\* status, or one that is not (a failure of the transport).
ResponseError(status) == [hasResponse |-> TRUE, status |-> status]

TransportError == [hasResponse |-> FALSE, status |-> 0]

\* readFile's, deleteFile's and statFile's errors.New("eTag mismatch").
ETagMismatch == [hasResponse |-> FALSE, status |-> 0, text |-> "eTag mismatch"]

\* IsErrorRetryable without the case of http.StatusTooManyRequests.
IsErrorRetryableBut429(e) ==
    IF e = nil THEN FALSE
    ELSE IF ~e.hasResponse THEN TRUE
    ELSE e.status < 400 \/ e.status >= 500

\* IsErrorRetryable.
IsErrorRetryable(e) ==
    IF e = nil THEN FALSE
    ELSE IF ~e.hasResponse THEN TRUE
    ELSE CASE e.status < 400 -> TRUE
           [] e.status = StatusTooManyRequests -> TRUE
           [] e.status >= 500 -> TRUE
           [] OTHER -> FALSE

\* strings.TrimRight(s, "\"") and strings.TrimLeft(s, "\"").
RECURSIVE TrimRight(_, _)
TrimRight(str, cut) ==
    IF Len(str) > 0 /\ SubSeq(str, Len(str), Len(str)) = cut
    THEN TrimRight(SubSeq(str, 1, Len(str) - 1), cut)
    ELSE str

RECURSIVE TrimLeft(_, _)
TrimLeft(str, cut) ==
    IF Len(str) > 0 /\ SubSeq(str, 1, 1) = cut
    THEN TrimLeft(SubSeq(str, 2, Len(str)), cut)
    ELSE str

\* The ETag header taken as it is, quotes and all.
untrimmed(ETag) == ETag

\* strings.TrimLeft(strings.TrimRight(*ETag, "\""), "\"").
trimmed(ETag) == TrimLeft(TrimRight(ETag, "\""), "\"")

\* The ETag header the endpoint sends for an entity tag: the tag in quotes.
ETagHeader(eTag) == "\"" \o eTag \o "\""

\* No s3Context call in progress.
IdleS3Call == [pc |-> "idle"]

\* The ifMatch values callers pass: none, the tags an object has had, and a
\* tag in the quotes readFile's output leaves around it.
IfMatches == {"", "e1", "e2", "\"e1\""}

\* Another client writes the object: it exists, with the other entity tag.
PutObject ==
    /\ s3Call.pc = "idle"
    /\ s3Store' = [present |-> TRUE,
                   eTag |-> IF s3Store.eTag = "e1" THEN "e2" ELSE "e1"]
    /\ UNCHANGED <<fsVars, dirVars, cfgVars, renameErrno, backendS3, s3Call,
                   telemetryVars, extVars>>

\* readFile, deleteFile or statFile is called: it builds the HeadObject
\* input, with IfMatch when ifMatch is not empty, and hands it to the SDK.
s3ContextCall(op, ifMatch) ==
    /\ backendS3 # NoBackendS3
    /\ backendS3.ended
    /\ s3Call.pc = "idle"
    /\ s3Call' = [ pc |-> "request", op |-> op, ifMatch |-> ifMatch,
                   request |-> "HeadObject", attempt |-> 1, err |-> nil,
                   retryable |-> FALSE, faults |-> 0, sent |-> 0,
                   eTag |-> "", buf |-> FALSE, before |-> s3Store ]
    /\ UNCHANGED <<fsVars, dirVars, cfgVars, renameErrno, backendS3, s3Store,
                   telemetryVars, extVars>>

\* What the endpoint answers to a request carrying ifMatch (nil: success):
\* 404 for a missing object; 412 when it honours If-Match and the tag,
\* quoted or not, is not the object's.
endpointAnswer(ifMatch, honoursIfMatch) ==
    IF ~s3Store.present THEN ResponseError(404)
    ELSE IF /\ ifMatch # ""
            /\ honoursIfMatch
            /\ trimmed(ifMatch) # s3Store.eTag
    THEN ResponseError(412)
    ELSE nil

\* The faults a request may meet on its way: none, a failure of the
\* transport, or a response with one of these statuses.
Faults == {nil, TransportError} \cup
          {ResponseError(status) : status \in {399, 400, 429, 499, 500, 503}}

\* One attempt of the SDK at the request in hand. A failed attempt is
\* retried when IsErrorRetryable says so and attempts remain below
\* MaxAttempts; otherwise the call returns the error. After HeadObject the
\* call compares ifMatch with the trimmed ETag itself and returns
\* "eTag mismatch", or returns statFile's output, or goes on to GetObject
\* or DeleteObject with the same IfMatch.
s3Attempt(fault, honoursIfMatch) ==
    /\ s3Call.pc = "request"
    /\ LET answer == IF fault # nil THEN fault
                     ELSE endpointAnswer(s3Call.ifMatch, honoursIfMatch)
           tried == [s3Call EXCEPT !.sent = @ + 1,
                                   !.faults = @ + (IF fault # nil THEN 1 ELSE 0),
                                   !.err = answer,
                                   !.retryable = IsErrorRetryable(answer)]
           ETag == ETagHeader(s3Store.eTag)
       IN  IF answer # nil
           THEN /\ s3Call' =
                     IF IsErrorRetryable(answer) /\ s3Call.attempt < MaxAttempts
                     THEN [tried EXCEPT !.attempt = @ + 1]
                     ELSE [tried EXCEPT !.pc = "done"]
                /\ s3Store' = s3Store
           ELSE IF s3Call.request = "HeadObject"
           THEN /\ s3Call' =
                     IF s3Call.ifMatch # "" /\ s3Call.ifMatch # trimmed(ETag)
                     THEN [tried EXCEPT !.pc = "done", !.err = ETagMismatch]
                     ELSE IF s3Call.op = "statFile"
                     THEN [tried EXCEPT !.pc = "done", !.eTag = trimmed(ETag)]
                     ELSE [tried EXCEPT
                             !.request = IF s3Call.op = "readFile"
                                         THEN "GetObject" ELSE "DeleteObject",
                             !.attempt = 1]
                /\ s3Store' = s3Store
           ELSE IF s3Call.request = "GetObject"
           THEN /\ s3Call' = [tried EXCEPT !.pc = "done", !.buf = TRUE,
                                            !.eTag = ETag]
                /\ s3Store' = s3Store
           ELSE /\ s3Call' = [tried EXCEPT !.pc = "done"]
                /\ s3Store' = [s3Store EXCEPT !.present = FALSE]
    /\ UNCHANGED <<fsVars, dirVars, cfgVars, renameErrno, backendS3,
                   telemetryVars, extVars>>

\* The caller takes what the call returned.
s3ContextReturn ==
    /\ s3Call.pc = "done"
    /\ s3Call' = IdleS3Call
    /\ UNCHANGED <<fsVars, dirVars, cfgVars, renameErrno, backendS3, s3Store,
                   telemetryVars, extVars>>

(* ------------- the metrics reader (DiperiodicReader) ------------------- *)

\* The goroutines that call ForceFlush.
Flushers == {"flush1", "flush2"}

\* NewDiperiodicReader: empty buffers, both mutexes free, an open context,
\* flushChan of capacity 1 written as the errCh's queued on it, both daemons
\* counted in wg. errCh is the set of callers whose errCh holds a reply;
\* serving is the errCh exportDaemon took from flushChan; the last two
\* fields say that ManualReader.Shutdown and exporter.Shutdown were called.
NewDiperiodicReader ==
    [ ctxDone |-> FALSE, wg |-> 2, flushChan |-> <<>>, errCh |-> {},
      serving |-> NULL, exportMu |-> NULL, collectMu |-> NULL,
      collectBuffer |-> 0, exportBuffer |-> 0,
      readerShutdown |-> FALSE, exporterShutdown |-> FALSE ]

\* Both daemons sit in their select; nobody flushes or shuts down.
DiperiodicReaderStart ==
    [ p \in {"exportDaemon", "collectDaemon", "Shutdown"} \cup Flushers |->
        IF p \in {"exportDaemon", "collectDaemon"} THEN "select" ELSE "idle" ]

\* doCollect's append: one snapshot joins collectBuffer.
doCollect(r) ==
    [r EXCEPT !.collectBuffer = Min(@ + 1, MaxSnapshots)]

\* Where goroutine p goes on when its doCollect returns: collectDaemon to
\* its select, exportDaemon (serving a flush) to doExport.
afterCollect(p) == IF p = "collectDaemon" THEN "select" ELSE "doExport"

\* collectDaemon's select: the ticker fired and it calls doCollect, or the
\* context is done and it returns (wg.Done).
collectDaemon ==
    /\ readerPc["collectDaemon"] = "select"
    /\ \/ /\ reader' = reader
          /\ readerPc' = [readerPc EXCEPT !["collectDaemon"] = "doCollect"]
       \/ /\ reader.ctxDone
          /\ reader' = [reader EXCEPT !.wg = @ - 1]
          /\ readerPc' = [readerPc EXCEPT !["collectDaemon"] = "returned"]
    /\ UNCHANGED <<fsVars, dirVars, cfgVars, renameErrno, s3Vars, extVars>>

\* doCollect, called by goroutine p: ManualReader.Collect takes a snapshot
\* (a reader shut down gives an error and doCollect returns), then
\* collectMu is taken.
doCollectLock(p) ==
    /\ readerPc[p] = "doCollect"
    /\ \/ /\ reader.readerShutdown
          /\ reader' = reader
          /\ readerPc' = [readerPc EXCEPT ![p] = afterCollect(p)]
       \/ /\ ~reader.readerShutdown
          /\ reader.collectMu = NULL
          /\ reader' = [reader EXCEPT !.collectMu = p]
          /\ readerPc' = [readerPc EXCEPT ![p] = "append"]
    /\ UNCHANGED <<fsVars, dirVars, cfgVars, renameErrno, s3Vars, extVars>>

\* doCollect under collectMu: the snapshot is appended, collectMu released.
doCollectReturn(p) ==
    /\ readerPc[p] = "append"
    /\ reader.collectMu = p
    /\ reader' = [doCollect(reader) EXCEPT !.collectMu = NULL]
    /\ readerPc' = [readerPc EXCEPT ![p] = afterCollect(p)]
    /\ UNCHANGED <<fsVars, dirVars, cfgVars, renameErrno, s3Vars, extVars>>

\* exportDaemon's select: the ticker fired and it calls doExport; or it took
\* an errCh from flushChan and calls doCollect, then doExport; or the
\* context is done and it returns (wg.Done).
exportDaemon ==
    /\ readerPc["exportDaemon"] = "select"
    /\ \/ /\ reader' = reader
          /\ readerPc' = [readerPc EXCEPT !["exportDaemon"] = "doExport"]
       \/ /\ reader.flushChan # <<>>
          /\ reader' = [reader EXCEPT !.flushChan = Tail(@),
                                      !.serving = Head(reader.flushChan)]
          /\ readerPc' = [readerPc EXCEPT !["exportDaemon"] = "doCollect"]
       \/ /\ reader.ctxDone
          /\ reader' = [reader EXCEPT !.wg = @ - 1]
          /\ readerPc' = [readerPc EXCEPT !["exportDaemon"] = "returned"]
    /\ UNCHANGED <<fsVars, dirVars, cfgVars, renameErrno, s3Vars, extVars>>

\* The reader as doExport leaves it when goroutine p returns from it:
\* exportMu released, exportDaemon answers the errCh it serves.
doExportUnlock(r, p) ==
    [r EXCEPT !.exportMu = NULL,
              !.exportBuffer = 0,
              !.errCh = IF p = "exportDaemon" /\ r.serving # NULL
                        THEN @ \cup {r.serving} ELSE @,
              !.serving = IF p = "exportDaemon" THEN NULL ELSE @]

\* Where goroutine p goes on when its doExport returns: exportDaemon to its
\* select, Shutdown to ManualReader.Shutdown.
afterExport(p) == IF p = "exportDaemon" THEN "select" ELSE "ManualReader.Shutdown"

\* doExport that keeps collectMu until it returns.
doExportRotateHolding(p) ==
    /\ readerPc[p] = "doExport"
    /\ reader.exportMu = NULL
    /\ reader.collectMu = NULL
    /\ reader' = [reader EXCEPT !.exportMu = p,
                                !.collectMu = p,
                                !.exportBuffer = reader.collectBuffer,
                                !.collectBuffer = 0]
    /\ readerPc' = [readerPc EXCEPT ![p] = "Export"]
    /\ UNCHANGED <<fsVars, dirVars, cfgVars, renameErrno, s3Vars, extVars>>

\* doExport, called by goroutine p: it takes exportMu and, under collectMu
\* for the length of the swap only, turns collectBuffer into exportBuffer;
\* with nothing to export it returns.
doExportRotate(p) ==
    /\ readerPc[p] = "doExport"
    /\ reader.exportMu = NULL
    /\ reader.collectMu = NULL
    /\ IF reader.collectBuffer = 0
       THEN /\ reader' = doExportUnlock(reader, p)
            /\ readerPc' = [readerPc EXCEPT ![p] = afterExport(p)]
       ELSE /\ reader' = [reader EXCEPT !.exportMu = p,
                                        !.exportBuffer = reader.collectBuffer,
                                        !.collectBuffer = 0]
            /\ readerPc' = [readerPc EXCEPT ![p] = "Export"]
    /\ UNCHANGED <<fsVars, dirVars, cfgVars, renameErrno, s3Vars, extVars>>

\* doExport's exporter.Export of the merged snapshots, the buffer cleared
\* and exportMu released on return.
doExportReturn(p) ==
    /\ readerPc[p] = "Export"
    /\ reader.exportMu = p
    /\ reader' = doExportUnlock(reader, p)
    /\ readerPc' = [readerPc EXCEPT ![p] = afterExport(p)]
    /\ UNCHANGED <<fsVars, dirVars, cfgVars, renameErrno, s3Vars, extVars>>

\* ForceFlush called by goroutine c: its errCh goes onto flushChan when
\* there is room, or its own context ends first and it returns.
ForceFlush(c) ==
    /\ readerPc[c] = "idle"
    /\ \/ /\ Len(reader.flushChan) < 1
          /\ c \notin Range(reader.flushChan)
          /\ reader.serving # c
          /\ reader' = [reader EXCEPT !.flushChan = Append(@, c)]
          /\ readerPc' = [readerPc EXCEPT ![c] = "errCh"]
       \/ /\ reader' = reader
          /\ readerPc' = [readerPc EXCEPT ![c] = "returned"]
    /\ UNCHANGED <<fsVars, dirVars, cfgVars, renameErrno, s3Vars, extVars>>

\* ForceFlush waiting on its errCh: the reply arrives and it calls
\* exporter.ForceFlush, or its own context ends first; it returns.
ForceFlushReturn(c) ==
    /\ readerPc[c] = "errCh"
    /\ \/ /\ c \in reader.errCh
          /\ reader' = [reader EXCEPT !.errCh = @ \ {c}]
       \/ /\ c \notin reader.errCh
          /\ reader' = reader
    /\ readerPc' = [readerPc EXCEPT ![c] = "returned"]
    /\ UNCHANGED <<fsVars, dirVars, cfgVars, renameErrno, s3Vars, extVars>>

\* The goroutine that flushed comes to flush again, with a new errCh.
ForceFlushAgain(c) ==
    /\ readerPc[c] = "returned"
    /\ c \notin Range(reader.flushChan)
    /\ reader.serving # c
    /\ reader' = [reader EXCEPT !.errCh = @ \ {c}]
    /\ readerPc' = [readerPc EXCEPT ![c] = "idle"]
    /\ UNCHANGED <<fsVars, dirVars, cfgVars, renameErrno, s3Vars, extVars>>

\* Shutdown, inside shutdownOnce: cancelFunc().
Shutdown ==
    /\ readerPc["Shutdown"] = "idle"
    /\ reader' = [reader EXCEPT !.ctxDone = TRUE]
    /\ readerPc' = [readerPc EXCEPT !["Shutdown"] = "wg.Wait"]
    /\ UNCHANGED <<fsVars, dirVars, cfgVars, renameErrno, s3Vars, extVars>>

\* Shutdown going on to its final doExport without waiting for the daemons.
ShutdownNoWait ==
    /\ readerPc["Shutdown"] = "wg.Wait"
    /\ reader' = reader
    /\ readerPc' = [readerPc EXCEPT !["Shutdown"] = "doExport"]
    /\ UNCHANGED <<fsVars, dirVars, cfgVars, renameErrno, s3Vars, extVars>>

\* Shutdown's wg.Wait(): both daemons have returned; the tickers are
\* stopped and the final doExport is called.
ShutdownWait ==
    /\ readerPc["Shutdown"] = "wg.Wait"
    /\ reader.wg = 0
    /\ reader' = reader
    /\ readerPc' = [readerPc EXCEPT !["Shutdown"] = "doExport"]
    /\ UNCHANGED <<fsVars, dirVars, cfgVars, renameErrno, s3Vars, extVars>>

\* ManualReader.Shutdown called before the final doExport.
ShutdownManualReaderEarly ==
    /\ readerPc["Shutdown"] = "doExport"
    /\ reader' = [reader EXCEPT !.readerShutdown = TRUE]
    /\ readerPc' = [readerPc EXCEPT !["Shutdown"] = "exporter.Shutdown"]
    /\ UNCHANGED <<fsVars, dirVars, cfgVars, renameErrno, s3Vars, extVars>>

\* Shutdown after its final doExport: r.ManualReader.Shutdown(ctx).
ShutdownManualReader ==
    /\ readerPc["Shutdown"] = "ManualReader.Shutdown"
    /\ reader' = [reader EXCEPT !.readerShutdown = TRUE]
    /\ readerPc' = [readerPc EXCEPT !["Shutdown"] = "exporter.Shutdown"]
    /\ UNCHANGED <<fsVars, dirVars, cfgVars, renameErrno, s3Vars, extVars>>

\* Shutdown's last call: r.exporter.Shutdown(ctx); Shutdown returns.
ShutdownExporter ==
    /\ readerPc["Shutdown"] = "exporter.Shutdown"
    /\ reader' = [reader EXCEPT !.exporterShutdown = TRUE]
    /\ readerPc' = [readerPc EXCEPT !["Shutdown"] = "returned"]
    /\ UNCHANGED <<fsVars, dirVars, cfgVars, renameErrno, s3Vars, extVars>>

(* ------- the client-compatible configuration (config.go) --------------- *)

\* mscp_version 0, the default: the document is a profiles document.
MSCPVersionPythonCompatibility == 0

\* filepath.Ext: the suffix from the last dot of the last path element on.
RECURSIVE extFrom(_, _)
extFrom(path, i) ==
    IF i = 0 \/ SubSeq(path, i, i) = "/" THEN ""
    ELSE IF SubSeq(path, i, i) = "." THEN SubSeq(path, i, Len(path))
    ELSE extFrom(path, i - 1)

Ext(path) == extFrom(path, Len(path))

\* strings.Index for a separator of one byte: 0 when it does not occur.
Index(str, sep) ==
    LET at == {i \in 1..Len(str) : SubSeq(str, i, i) = sep}
    IN  IF at = {} THEN 0 ELSE CHOOSE i \in at : \A j \in at : i <= j

\* strings.Split(str, sep).
RECURSIVE Split(_, _)
Split(str, sep) ==
    IF Index(str, sep) = 0 THEN <<str>>
    ELSE <<SubSeq(str, 1, Index(str, sep) - 1)>>
             \o Split(SubSeq(str, Index(str, sep) + 1, Len(str)), sep)

\* strings.Join(elems, sep).
RECURSIVE Join(_, _)
Join(elems, sep) ==
    IF elems = <<>> THEN ""
    ELSE IF Len(elems) = 1 THEN elems[1]
    ELSE elems[1] \o sep \o Join(Tail(elems), sep)

\* strings.HasSuffix(str, suffix).
HasSuffix(str, suffix) ==
    /\ Len(str) >= Len(suffix)
    /\ SubSeq(str, Len(str) - Len(suffix) + 1, Len(str)) = suffix

\* url.Parse's Scheme, and Host + Path, of the endpoint URLs used here.
Scheme(rawURL) ==
    IF Index(rawURL, ":") = 0 THEN ""
    ELSE SubSeq(rawURL, 1, Index(rawURL, ":") - 1)

HostAndPath(rawURL) ==
    IF Len(rawURL) >= Index(rawURL, ":") + 2
       /\ SubSeq(rawURL, Index(rawURL, ":") + 1, Index(rawURL, ":") + 2) = "//"
    THEN SubSeq(rawURL, Index(rawURL, ":") + 3, Len(rawURL))
    ELSE ""

\* The base_path values the profiles use.
BasePaths == {"bucket/sub/", "bucket/sub", "bucket", "bucket/", "bucket/a/b"}

\* A storage_provider and a credentials_provider with every field.
StorageProvider(type, base_path) ==
    [ type |-> type,
      options |-> [ base_path |-> base_path,
                    endpoint_url |-> "http://minio:9000",
                    region_name |-> "us-east-1" ] ]

S3Credentials ==
    [ type |-> "S3Credentials",
      options |-> [access_key |-> "minioadmin", secret_key |-> "minioadmin"] ]

\* The profiles with every field, of the types s3 and s8k.
CompleteProfiles ==
    {[ storage_provider |-> StorageProvider("s3", b),
       credentials_provider |-> S3Credentials ] : b \in BasePaths}
    \cup {[ storage_provider |-> StorageProvider("s8k", "bucket/sub/"),
            credentials_provider |-> S3Credentials ]}

\* The profiles with no storage_provider or one of another type.
UnsupportedProfiles ==
    { [ credentials_provider |-> S3Credentials ],
      [ storage_provider |-> [ type |-> "file",
                               options |-> [base_path |-> "/tmp"] ] ] }

\* The s3 profiles that lack a required field: base_path, the type, the
\* credentials_provider.
IncompleteProfiles ==
    { [ storage_provider |-> [ type |-> "s3",
                               options |-> [ endpoint_url |-> "http://minio:9000",
                                             region_name |-> "us-east-1" ] ],
        credentials_provider |-> S3Credentials ],
      [ storage_provider |-> [ options |-> [ base_path |-> "bucket" ] ],
        credentials_provider |-> S3Credentials ],
      [ storage_provider |-> StorageProvider("s3", "bucket") ] }

\* The s3 profiles with every field, one of them not what it must be: the
\* type of the credentials, the scheme of the endpoint.
MalformedProfiles ==
    { [ storage_provider |-> StorageProvider("s3", "bucket"),
        credentials_provider |-> [ type |-> "AzureCredentials",
                                   options |-> [connection |-> "c"] ] ],
      [ storage_provider |-> [ type |-> "s3",
                               options |-> [ base_path |-> "bucket",
                                             endpoint_url |-> "minio:9000",
                                             region_name |-> "us-east-1" ] ],
        credentials_provider |-> S3Credentials ] }

\* The profiles a document may give each of its two names.
ProfilesOf(profileName) ==
    IF profileName = "p"
    THEN CompleteProfiles \cup UnsupportedProfiles \cup IncompleteProfiles
             \cup MalformedProfiles
    ELSE {[ storage_provider |-> StorageProvider("s3", "bucket/sub/"),
            credentials_provider |-> S3Credentials ]}
         \cup UnsupportedProfiles

ProfileNames == {"p", "q"}

\* The paths the daemon may be started with.
ConfigFilePaths ==
    { "/etc/msc_config.yaml", "/etc/msc_config.yml", "/etc/msc_config.json",
      "/etc/msc_config.other", "/etc/msc_config", "/etc.d/msc_config" }

\* checkConfigFile's translation of one profile: it is skipped, or an error
\* ends the parse, or it becomes the backendAsMap of one S3 backend.
translateProfile(profileName, profile) ==
    IF "storage_provider" \notin DOMAIN profile
    THEN [kind |-> "skip"]
    ELSE LET storageProvider == profile.storage_provider IN
    IF "type" \notin DOMAIN storageProvider
    THEN [kind |-> "err",
          err |-> "missing or bad profile " \o profileName \o " storage_provider type"]
    ELSE IF storageProvider.type \notin {"s3", "s8k"}
    THEN [kind |-> "skip"]
    ELSE IF "options" \notin DOMAIN storageProvider
    THEN [kind |-> "err",
          err |-> "missing profile " \o profileName \o " storage_provider options"]
    ELSE LET options == storageProvider.options IN
    IF "base_path" \notin DOMAIN options
    THEN [kind |-> "err",
          err |-> "missing or bad profile " \o profileName
                      \o " storage_provider options base_path"]
    ELSE IF "endpoint_url" \notin DOMAIN options
    THEN [kind |-> "err",
          err |-> "missing or bad profile " \o profileName
                      \o " storage_provider options endpoint_url"]
    ELSE IF "region_name" \notin DOMAIN options
    THEN [kind |-> "err",
          err |-> "missing or bad profile " \o profileName
                      \o " storage_provider options region_name"]
    ELSE IF "credentials_provider" \notin DOMAIN profile
    THEN [kind |-> "err",
          err |-> "missing profile " \o profileName \o " credentials_provider"]
    ELSE LET credentialsProvider == profile.credentials_provider IN
    IF "type" \notin DOMAIN credentialsProvider
    THEN [kind |-> "err",
          err |-> "missing or bad profile " \o profileName
                      \o " credentials_provider type"]
    ELSE IF credentialsProvider.type # "S3Credentials"
    THEN [kind |-> "err",
          err |-> "bad profile " \o profileName
                      \o " storage_provider type - must be S3Credentials"]
    ELSE IF \/ "options" \notin DOMAIN credentialsProvider
            \/ "access_key" \notin DOMAIN credentialsProvider.options
            \/ "secret_key" \notin DOMAIN credentialsProvider.options
    THEN [kind |-> "err",
          err |-> "missing profile " \o profileName
                      \o " credentials_provider options"]
    ELSE LET basePathSplit == Split(options.base_path, "/")
             bucketContainerName == basePathSplit[1]
             joined == Join(Tail(basePathSplit), "/")
             prefix == IF Len(basePathSplit) = 1 THEN ""
                       ELSE IF HasSuffix(joined, "/") THEN joined
                       ELSE joined \o "/"
         IN
    IF Scheme(options.endpoint_url) \notin {"http", "https"}
    THEN [kind |-> "err",
          err |-> "bad profile " \o profileName
                      \o " storage_provider options endpoint"]
    ELSE [kind |-> "backend",
          backend |->
            [ dir_name |-> profileName,
              bucket_container_name |-> bucketContainerName,
              prefix |-> prefix,
              backend_type |-> "S3",
              S3 |-> [ access_key_id |-> credentialsProvider.options.access_key,
                       secret_access_key |-> credentialsProvider.options.secret_key,
                       region |-> options.region_name,
                       endpoint |-> HostAndPath(options.endpoint_url),
                       allow_http |-> Scheme(options.endpoint_url) = "http" ] ]]

\* A profile that is an error where the code skips it.
rejectProfile(done, profileName) ==
    [done EXCEPT !.err = "unsupported profile " \o profileName]

\* A profile skipped: logged once, remembered in globals.backendsSkipped.
skipProfile(done, profileName) ==
    [done EXCEPT !.backendsSkipped = @ \cup {profileName}]

\* checkConfigFile's loop over the profiles, in the order the range over
\* the map takes: the profiles skipped join globals.backendsSkipped, the
\* first error ends the loop.
RECURSIVE translateProfiles(_, _, _)
translateProfiles(profiles, order, done) ==
    IF order = <<>> \/ done.err # OK THEN done
    ELSE LET translated == translateProfile(Head(order), profiles[Head(order)])
         IN  translateProfiles(profiles, Tail(order),
                CASE translated.kind = "skip" ->
                        skipProfile(done, Head(order))
                  [] translated.kind = "err" ->
                        [done EXCEPT !.err = translated.err]
                  [] OTHER ->
                        [done EXCEPT !.backends =
                                        Put(@, Head(order), translated.backend)])

\* checkConfigFile on a profiles document at the given path: the error it
\* returns, the backends of its (local) config, and globals.backendsSkipped.
\* known is globals.config's backends, none before the first success.
parseProfilesFile(configFilePath, profiles, order, backendsSkipped, known) ==
    IF Ext(configFilePath) \notin {".json", ".yaml"}
    THEN [err |-> "unsupported extension", backends |-> EmptyMap,
          backendsSkipped |-> backendsSkipped]
    ELSE LET translated ==
                 translateProfiles(profiles, order,
                     [err |-> OK, backends |-> EmptyMap,
                      backendsSkipped |-> backendsSkipped])
             changed ==
                 {dirName \in DOMAIN known \cap DOMAIN translated.backends :
                     known[dirName] # translated.backends[dirName]}
         IN  IF translated.err = OK /\ changed # {}
             THEN [translated EXCEPT !.err = "cannot change a setting in backends"]
             ELSE translated

\* No document written yet, nothing parsed.
NoDocument ==
    [ pc |-> "start", configFilePath |-> "", profiles |-> EmptyMap,
      err |-> OK, backends |-> EmptyMap, backendsSkipped |-> {},
      known |-> EmptyMap ]

\* initGlobals: the path of the configuration file is fixed.
initGlobals(configFilePath) ==
    /\ compat.pc = "start"
    /\ compat' = [compat EXCEPT !.pc = "idle",
                                !.configFilePath = configFilePath]
    /\ UNCHANGED <<fsVars, dirVars, cfgVars, renameErrno, s3Vars,
                   telemetryVars, transport>>

\* The operator writes a profiles document.
WriteProfiles(profiles) ==
    /\ compat.pc = "idle"
    /\ compat' = [compat EXCEPT !.pc = "written", !.profiles = profiles]
    /\ UNCHANGED <<fsVars, dirVars, cfgVars, renameErrno, s3Vars,
                   telemetryVars, transport>>

\* checkConfigFile, at startup or for a reload: on success the backends of
\* the document are those of globals.config from now on.
checkConfigFileProfiles(order) ==
    /\ compat.pc = "written"
    /\ order \in rangeOrders(compat.profiles)
    /\ LET parsed == parseProfilesFile(compat.configFilePath, compat.profiles,
                                       order, compat.backendsSkipped,
                                       compat.known)
       IN  compat' = [compat EXCEPT
                        !.pc = "checked",
                        !.err = parsed.err,
                        !.backends = parsed.backends,
                        !.backendsSkipped = parsed.backendsSkipped,
                        !.known = IF parsed.err = OK THEN parsed.backends
                                  ELSE @]
    /\ UNCHANGED <<fsVars, dirVars, cfgVars, renameErrno, s3Vars,
                   telemetryVars, transport>>

\* The daemon goes on; the document may be rewritten.
checkConfigFileReturn ==
    /\ compat.pc = "checked"
    /\ compat' = [compat EXCEPT !.pc = "idle"]
    /\ UNCHANGED <<fsVars, dirVars, cfgVars, renameErrno, s3Vars,
                   telemetryVars, transport>>

(* ------- the telemetry transport and its access tokens ----------------- *)

\* otlp exporter: the retries of one request, the first and the longest wait.
maxRetries == 5
retryWaitMin == 500
retryWaitMax == 8000

\* Token provider: the base and the limit of its waits, in milliseconds.
backoffFactorMs == 500
maxBackoffMs == 60000

\* 1 << attempt.
RECURSIVE shiftLeft(_)
shiftLeft(attempt) == IF attempt = 0 THEN 1 ELSE 2 * shiftLeft(attempt - 1)

\* sleepWithBackoff / calculateBackoff: the wait after the given attempt.
calculateBackoff(waitMin, waitMax, attempt) ==
    Min(waitMin * shiftLeft(attempt), waitMax)

\* What one round trip on the wire comes to: an error of the connection,
\* or a response with its status and, from the token endpoint, its token.
ConnectionError == [err |-> TRUE, StatusCode |-> 0, AccessToken |-> ""]

Response(StatusCode, AccessToken) ==
    [err |-> FALSE, StatusCode |-> StatusCode, AccessToken |-> AccessToken]

StatusCodes == {200, 400, 408, 429, 500, 503, 505}

\* The round trips of an export request, and those of a token request.
ExportOutcomes ==
    {ConnectionError} \cup {Response(s, "") : s \in StatusCodes}

TokenOutcomes ==
    ExportOutcomes \cup {Response(200, "token")}

\* msalRetryTransport.RoundTrip's status_forcelist.
statusForcelist == {408, 429, 500, 501, 502, 503, 504}

\* prepareRequest with the header set whatever the token.
prepareRequestBearer(token) == "Bearer " \o token

\* prepareRequest: the Authorization header of the clone, "" for none.
prepareRequest(token) ==
    IF token # "" THEN "Bearer " \o token ELSE ""

\* No telemetry request under way.
IdleTransport ==
    [ pc |-> "idle", token |-> "", retryCount |-> 0, tokenSlept |-> <<>>,
      msalAttempt |-> 0, msalSlept |-> <<>>, attempt |-> 0, slept |-> <<>>,
      sent |-> 0, Authorization |-> "", outcome |-> Response(200, ""),
      returned |-> "" ]

\* retryableTransport.RoundTrip is called with an export request.
RoundTrip ==
    /\ transport.pc \in {"idle", "returned"}
    /\ transport' = [IdleTransport EXCEPT !.pc = "getToken"]
    /\ UNCHANGED <<fsVars, dirVars, cfgVars, renameErrno, s3Vars,
                   telemetryVars, compat>>

\* getToken, GetToken: AcquireTokenSilent finds a token in the cache, or
\* the token is to be acquired.
AcquireTokenSilent(hit) ==
    /\ transport.pc = "getToken"
    /\ transport' = IF hit
                    THEN [transport EXCEPT !.pc = "send", !.token = "token"]
                    ELSE [transport EXCEPT !.pc = "AcquireTokenByCredential"]
    /\ UNCHANGED <<fsVars, dirVars, cfgVars, renameErrno, s3Vars,
                   telemetryVars, compat>>

\* GetToken returns to getToken, which has the token or "" to go on with.
getTokenReturn(t, token) ==
    [t EXCEPT !.pc = "send", !.token = token]

\* GetToken after AcquireTokenByCredential failed for the connection: one
\* more retry counted, and a wait before the next one if there is a next.
GetTokenRetry(t) ==
    IF t.retryCount + 1 < maxRetries
    THEN [t EXCEPT !.retryCount = @ + 1,
                   !.msalAttempt = 0,
                   !.msalSlept = <<>>,
                   !.tokenSlept =
                       Append(@, Min(backoffFactorMs
                                         * shiftLeft(t.retryCount + 1),
                                     maxBackoffMs))]
    ELSE getTokenReturn([t EXCEPT !.retryCount = @ + 1], "")

\* One round trip of msalRetryTransport.RoundTrip within
\* AcquireTokenByCredential, and all that follows from it up to the next:
\* a response off the list goes back to the library, which has a token or
\* an error that is not of the connection; the others are tried again
\* after a wait, and after the last try the error goes up to GetToken.
msalRoundTrip(outcome) ==
    /\ transport.pc = "AcquireTokenByCredential"
    /\ outcome \in TokenOutcomes
    /\ LET t == [transport EXCEPT !.outcome = outcome] IN
       transport' =
           IF ~outcome.err /\ outcome.StatusCode \notin statusForcelist
           THEN getTokenReturn(t, outcome.AccessToken)
           ELSE IF t.msalAttempt < maxRetries
           THEN [t EXCEPT !.msalAttempt = @ + 1,
                          !.msalSlept =
                              Append(@, calculateBackoff(backoffFactorMs,
                                                         maxBackoffMs,
                                                         t.msalAttempt))]
           ELSE IF outcome.err
           THEN GetTokenRetry(t)
           ELSE getTokenReturn(t, "")
    /\ UNCHANGED <<fsVars, dirVars, cfgVars, renameErrno, s3Vars,
                   telemetryVars, compat>>

\* One pass of retryableTransport.RoundTrip's loop: the clone is sent; a
\* response below 500 is returned; after anything else the transport waits
\* and goes round again, or gives up after the last attempt.
send(outcome) ==
    /\ transport.pc = "send"
    /\ outcome \in ExportOutcomes
    /\ LET t == [transport EXCEPT
                    !.outcome = outcome,
                    !.sent = @ + 1,
                    !.Authorization = prepareRequest(transport.token)]
       IN  transport' =
               IF ~outcome.err /\ outcome.StatusCode < 500
               THEN [t EXCEPT !.pc = "returned", !.returned = "resp"]
               ELSE IF t.attempt < maxRetries
               THEN [t EXCEPT !.attempt = @ + 1,
                              !.slept =
                                  Append(@, calculateBackoff(retryWaitMin,
                                                             retryWaitMax,
                                                             t.attempt))]
               ELSE [t EXCEPT !.pc = "returned", !.returned = "giving up"]
    /\ UNCHANGED <<fsVars, dirVars, cfgVars, renameErrno, s3Vars,
                   telemetryVars, compat>>

(* ------------------- the file-system specification --------------------- *)

\* The state after main's startup on the given document, its one backend
\* "b" mounted.
InitMounted(threads, document) ==
    /\ now = 0
    /\ nextTick = evictableInodeTTL
    /\ lastNonce = FUSERootDirInodeNumber + 1
    /\ inodeMap = InitInodeMap
    /\ inodeLRU = <<>>
    /\ backendInodeMap = EmptyMap
    /\ cacheLineHeap = EmptyMap
    /\ cleanCacheLineLRU = <<>>
    /\ inboundCacheLineCount = 0
    /\ fetchQueued = EmptyMap
    /\ fetchReading = EmptyMap
    /\ readFileLog = EmptyMap
    /\ readers = [r \in threads |-> IdleReader]
    /\ lockHolder = NULL
    /\ backendCall = NoCall
    /\ readAsked = EmptyMap
    /\ fhHeap = EmptyMap
    /\ readDirCall = IdleReadDir
    /\ scan = IdleScan
    /\ configFile = document
    /\ config = [ settings |-> parseConfigFile(document).config.settings,
                  backends |-> [ dirName \in DOMAIN document.backends |->
                      [ document |-> document.backends[dirName],
                        settings |-> parseConfigFile(document).config.backends[dirName],
                        inodeNumber |-> FUSERootDirInodeNumber + 1 ] ] ]
    /\ backendsToMount = EmptyMap
    /\ backendsToUnmount = EmptyMap
    /\ err = OK
    /\ renameErrno = NULL
    /\ backendS3 = NoBackendS3
    /\ s3Store = [present |-> TRUE, eTag |-> "e1"]
    /\ s3Call = IdleS3Call
    /\ reader = NewDiperiodicReader
    /\ readerPc = DiperiodicReaderStart
    /\ compat = NoDocument
    /\ transport = IdleTransport
    /\ bucket = ObjectKeys

\* The state after main's startup with the one backend "b" mounted.
InitState(threads) == InitMounted(threads, StartupDocument)

\* The node ids and handles the kernel may hold: every nonce handed out.
Nonces == 1..lastNonce

NextFS ==
    \/ AdvanceTime
    \/ inodeEvictor
    \/ \E n \in Nonces, name \in LookupNames : DoLookupStatFile(n, name)
    \/ \E n \in Nonces : DoLookupNoBackend(n)
    \/ findChildInodeFound
    \/ findChildInodeStatDirectory
    \/ findChildInodeMissing
    \/ \E n \in Nonces : DoOpen(n, FOpenRequestRDONLY)
    \/ \E n \in DOMAIN inodeMap, fh \in Nonces : DoRelease(n, fh)
    \/ \E r \in DOMAIN readers, n \in DOMAIN inodeMap, fh \in Nonces,
          size \in ReadSizes : DoReadBegin(r, n, fh, size)
    \/ \E r \in DOMAIN readers : DoReadLoop(r)
    \/ \E r \in DOMAIN readers : DoReadReturn(r)
    \/ \E key \in DOMAIN fetchQueued : fetchStart(key)
    \/ \E key \in DOMAIN fetchReading, failed \in BOOLEAN : fetchFinish(key, failed)

\* One request thread.
InitFS == InitState(OneReader)

SpecFS == InitFS /\ [][NextFS]_vars

\* Two request threads reading concurrently.
InitShared == InitState(TwoReaders)

SpecShared == InitShared /\ [][NextFS]_vars

\* Directory enumeration: one application lists directories, one at a time.
NextDir ==
    \/ \E n \in Nonces : DoOpenDir(n)
    \/ \E slots \in ReadDirSlots, plus \in BOOLEAN : DoReadDir(slots, plus)
    \/ \E failed \in BOOLEAN : listDirectoryReturn(failed)
    \/ \E k \in 1..Max(ReadDirSlots) : KernelConsume(k)
    \/ KernelEnd
    \/ DoReleaseDir

InitDir == InitState(OneReader)

SpecDir == InitDir /\ [][NextDir]_vars

\* Configuration reload: an operator edits the document and signals the
\* daemon, whose ticker also fires.
EditDocument ==
    \/ \E s \in EditedGlobalSettings : \E v \in GlobalValues(s) :
          EditGlobalSetting(s, v)
    \/ \E dirName \in DirNames, s \in EditedBackendSettings :
          \E v \in BackendValues(s) : EditBackendSetting(dirName, s, v)
    \/ \E dirName \in DirNames : AddBackend(dirName)
    \/ \E dirName \in DirNames : RemoveBackend(dirName)
    \/ Scribble

DeliverSIGHUP ==
    \E order \in rangeOrders(checkConfigFile.backendsToMount) : SIGHUP(order)

NextCfg ==
    \/ EditDocument
    \/ DeliverSIGHUP
    \/ ticker

InitCfg == InitState(OneReader)

SpecCfg == InitCfg /\ [][NextCfg]_vars

\* The periodic check alone: no hang-up signal is ever delivered, and the
\* ticker keeps firing.
NextTicker ==
    \/ EditDocument
    \/ ticker

SpecTicker == InitCfg /\ [][NextTicker]_vars /\ WF_vars(ticker)

\* The file system while renames are asked for.
NextOps ==
    \/ NextFS
    \/ \E n \in RenameDirs, newDir \in RenameDirs, name \in LookupNames :
          DoRename(n, name, newDir, name)
    \/ \E n \in RenameDirs, newDir \in RenameDirs, flags \in RenameFlags :
          DoRename2(n, "f", newDir, "f", flags)
    \/ RenameReturn

SpecOps == InitFS /\ [][NextOps]_vars

\* Lookups, opens and releases of files and opens of directories, the roots
\* among them, while time passes and the evictor sweeps.
NextRoots ==
    \/ AdvanceTime
    \/ inodeEvictor
    \/ \E n \in Nonces, name \in LookupNames : DoLookupStatFile(n, name)
    \/ \E n \in Nonces : DoLookupNoBackend(n)
    \/ findChildInodeFound
    \/ findChildInodeStatDirectory
    \/ findChildInodeMissing
    \/ \E n \in Nonces : DoOpen(n, FOpenRequestRDONLY)
    \/ \E n \in DOMAIN inodeMap, fh \in Nonces : DoRelease(n, fh)
    \/ \E n \in Nonces : DoOpenDir(n)

SpecRoots == InitFS /\ [][NextRoots]_vars

\* The daemon started on a document whose backend "b" is read-only, or not.
InitOpen ==
    \E readonly \in {0, 1} :
        InitMounted(OneReader,
                    [StartupDocument EXCEPT !.backends["b"]["readonly"] = readonly])

\* Lookups, and opens with every combination of flags, and releases.
NextOpen ==
    \/ \E n \in Nonces, name \in LookupNames : DoLookupStatFile(n, name)
    \/ findChildInodeFound
    \/ findChildInodeStatDirectory
    \/ findChildInodeMissing
    \/ \E n \in Nonces, Flags \in OpenFlags : DoOpen(n, Flags)
    \/ \E n \in DOMAIN inodeMap, fh \in Nonces : DoRelease(n, fh)

SpecOpen == InitOpen /\ [][NextOpen]_vars

\* The S3 backend context: the retry settings are parsed, callers read,
\* delete and stat the object with and without ifMatch, requests fail in
\* every way, and another client rewrites the object between calls.
NextS3 ==
    \/ \E retry_base_delay \in {0, 10}, multiplier \in Multipliers,
          retry_max_delay \in {5, 2000} :
          checkConfigFileS3(retry_base_delay, multiplier, retry_max_delay)
    \/ PutObject
    \/ \E op \in {"readFile", "deleteFile", "statFile"}, ifMatch \in IfMatches :
          s3ContextCall(op, ifMatch)
    \/ \E fault \in Faults, honoursIfMatch \in BOOLEAN :
          s3Attempt(fault, honoursIfMatch)
    \/ s3ContextReturn

SpecS3 == InitFS /\ [][NextS3]_vars

\* The metrics reader: its daemons, two goroutines that flush, and one that
\* shuts it down.
NextReader ==
    \/ collectDaemon
    \/ exportDaemon
    \/ \E p \in {"collectDaemon", "exportDaemon"} : doCollectLock(p)
    \/ \E p \in {"collectDaemon", "exportDaemon"} : doCollectReturn(p)
    \/ \E p \in {"exportDaemon", "Shutdown"} : doExportRotate(p)
    \/ \E p \in {"exportDaemon", "Shutdown"} : doExportReturn(p)
    \/ \E c \in Flushers : ForceFlush(c)
    \/ \E c \in Flushers : ForceFlushReturn(c)
    \/ \E c \in Flushers : ForceFlushAgain(c)
    \/ Shutdown
    \/ ShutdownWait
    \/ ShutdownManualReader
    \/ ShutdownExporter

SpecReader == InitFS /\ [][NextReader]_vars

\* The documents of the client-compatible dialect: each name absent or
\* given one of its profiles.
ProfilesDocuments ==
    UNION {[names -> UNION {ProfilesOf(n) : n \in names}] :
              names \in SUBSET ProfileNames}

\* The client-compatible configuration: the daemon starts with a path, the
\* operator writes profiles documents, and each is checked.
NextProfiles ==
    \/ \E configFilePath \in ConfigFilePaths : initGlobals(configFilePath)
    \/ \E profiles \in ProfilesDocuments :
          /\ \A n \in DOMAIN profiles : profiles[n] \in ProfilesOf(n)
          /\ WriteProfiles(profiles)
    \/ \E order \in rangeOrders(compat.profiles) : checkConfigFileProfiles(order)
    \/ checkConfigFileReturn

SpecProfiles == InitFS /\ [][NextProfiles]_vars

\* The export requests of the telemetry, one after the other.
NextTransport ==
    \/ RoundTrip
    \/ \E hit \in BOOLEAN : AcquireTokenSilent(hit)
    \/ \E outcome \in TokenOutcomes : msalRoundTrip(outcome)
    \/ \E outcome \in ExportOutcomes : send(outcome)

SpecTransport == InitFS /\ [][NextTransport]_vars

\* The daemon runs until a handler calls logger.Fatalf.
running == readDirCall.pc # "fatal"

\* The names the kernel looks up in the tree under the backend root.
TreeNames == {"d", "e", "g"}

\* The directories under the backend root that the kernel knows.
TreeDirs == {n \in DOMAIN inodeMap : inodeMap[n].inodeType = PseudoDir}

\* Lookups and enumerations in a tree of directories, while time passes, the
\* evictor sweeps, and the operator may drop the backend from the document
\* and signal the daemon.
NextTree ==
    \/ running /\ AdvanceTime
    \/ running /\ inodeEvictor
    \/ running /\ \E n \in Nonces, name \in TreeNames : DoLookupStatFile(n, name)
    \/ running /\ findChildInodeFound
    \/ running /\ findChildInodeStatDirectory
    \/ running /\ findChildInodeDirFound
    \/ running /\ findChildInodeMissing
    \/ running /\ lastNonce < MaxTreeNonce /\ \E n \in TreeDirs : DoOpenDir(n)
    \/ running /\ \E slots \in ReadDirSlots, plus \in BOOLEAN : DoReadDir(slots, plus)
    \/ running /\ listDirectoryReturn(FALSE)
    \/ running /\ \E k \in 1..Max(ReadDirSlots) : KernelConsume(k)
    \/ running /\ KernelEnd
    \/ running /\ DoReleaseDir
    \/ running /\ RemoveBackend("b")
    \/ running /\ DeliverSIGHUP

InitTree == InitState(OneReader)

SpecTree == InitTree /\ [][NextTree]_vars

(* ----------------- properties of directory enumeration ----------------- *)

\* The entries one pass over a directory yields: for the mount root the
\* keys of virtChildDirMap; for a backend's directory the files and
\* subdirectories the store lists under it and the directory's virtual
\* children ("." and ".." among them).
entriesOf(NodeID) ==
    IF inodeMap[NodeID].inodeType = FUSERootDir
    THEN DOMAIN inodeMap[NodeID].virtChildDirMap
    ELSE {item.basename :
             item \in Range(listItems(bucket, inodeMap[NodeID].objectPath, <<>>))}
         \cup DOMAIN inodeMap[NodeID].virtChildDirMap
         \cup DOMAIN inodeMap[NodeID].virtChildFileMap

\* A sequence without a repeated element.
noDuplicates(seq) == \A i, j \in 1..Len(seq) : seq[i] = seq[j] => i = j

\* C2: an enumeration that has ended, however it was paused and resumed at
\* cookies the daemon returned, has yielded every entry of the directory
\* once: none twice, none omitted.
C2_ResumedEnumerationComplete ==
    scan.state = "done"
        => /\ noDuplicates(scan.seen)
           /\ Range(scan.seen) = entriesOf(scan.NodeID)

\* An enumeration consumed reply by reply, never resumed inside a reply, has
\* yielded every entry once.
UninterruptedEnumerationComplete ==
    (scan.state = "done" /\ ~scan.paused)
        => /\ noDuplicates(scan.seen)
           /\ Range(scan.seen) = entriesOf(scan.NodeID)

(* ----------------- properties of configuration reload ------------------ *)

\* The mount root's entries.
mountRoot == DOMAIN inodeMap[FUSERootDirInodeNumber].virtChildDirMap

\* A reload is handled: a hang-up signal or a tick of the ticker.
reloadHandled == DeliverSIGHUP \/ ticker

\* The document differs from what is applied: in a global setting (the
\* applied ones are those of the document main started with, as
\* globals.config is set once), or in a setting of a backend that is both
\* applied and listed in the document.
documentDiffers ==
    \/ \E s \in Range(GlobalSettings) :
          configFile.settings[s] # StartupSettings[s]
    \/ \E dirName \in DOMAIN config.backends \cap DOMAIN configFile.backends :
          \E s \in Range(BackendSettings) :
             configFile.backends[dirName][s]
                 # config.backends[dirName].document[s]

\* C5: a reload of a document that differs from the applied configuration
\* in a global setting, or in a setting of a backend present in both,
\* fails: checkConfigFile returns an error.
C5_AnyDifferenceRejected ==
    [][(reloadHandled /\ documentDiffers) => err' # OK]_vars

\* C6: a reload that fails changes nothing: globals.config, the mounted
\* backends and the two queues are after it as before it.
C6_FailedReloadChangesNothing ==
    [][(reloadHandled /\ err' # OK)
          => UNCHANGED <<config, inodeMap, backendsToMount,
                         backendsToUnmount>>]_vars

\* C7: after a hang-up-triggered reload of a document that parses and
\* validates, the mount root holds ".", ".." and exactly the document's
\* backends.
C7_RootMatchesDocumentAfterSIGHUP ==
    [][(DeliverSIGHUP /\ err' = OK)
          => mountRoot' = {".", ".."} \cup DOMAIN configFile.backends]_vars

\* The document is one a reload accepts, and it lists the backend / does not.
listed(dirName) ==
    checkConfigFile.err = OK /\ dirName \in DOMAIN configFile.backends

unlisted(dirName) ==
    checkConfigFile.err = OK /\ dirName \notin DOMAIN configFile.backends

\* C8: with auto_sighup_interval non-zero and no hang-up signal, a backend
\* the document has come to list for good is eventually mounted, and one it
\* has dropped for good is eventually unmounted.
C8_TickerAloneApplies ==
    /\ <>[]listed("c") => <>("c" \in mountRoot)
    /\ <>[]unlisted("b") => <>("b" \notin mountRoot)

(* ------------------- properties of the file system --------------------- *)

\* The blocking backend calls in progress, each with the routine inside it.
blockingCalls ==
    (IF backendCall.op = NULL THEN {}
     ELSE {[op |-> backendCall.op, caller |-> backendCall.caller]})
    \cup {[op |-> "readFile", caller |-> "fetch"] :
             key \in {k \in DOMAIN fetchReading : fetchReading[k] > 0}}
    \cup (IF readDirCall.pc = "listDirectory"
          THEN {[op |-> "listDirectory", caller |-> "DoReadDir"]} ELSE {})

\* The fetch goroutines of a cache line that have not finished.
fetchesInFlight(key) ==
    (IF key \in DOMAIN fetchQueued THEN fetchQueued[key] ELSE 0)
    + (IF key \in DOMAIN fetchReading THEN fetchReading[key] ELSE 0)

\* ceil(N / cache_line_size).
chunksOf(N) == (N + cacheLineSize - 1) \div cacheLineSize

\* C1: a file inode with at least one open handle is never removed from the
\* inode table or from its backend's path map, whatever its age.
C1_OpenInodeNeverEvicted ==
    [][\A n \in DOMAIN inodeMap :
          (inodeMap[n].inodeType = FileObject /\ inodeMap[n].fhMap # {})
              => /\ n \in DOMAIN inodeMap'
                 /\ inodeMap[n].objectPath \in DOMAIN backendInodeMap']_vars

\* C3: a cache line that is Inbound has exactly one fetch in flight and a
\* line that is not has none, so no chunk ever has two fetches in flight;
\* every reader that landed on an Inbound line is blocked on that line's
\* completion signal, which the one fetch releases.
C3_OneFetchPerInboundLine ==
    /\ \A key \in DOMAIN cacheLineHeap :
          IF cacheLineHeap[key].state = CacheLineInbound
          THEN fetchesInFlight(key) = 1 /\ cacheLineHeap[key].wg = 1
          ELSE fetchesInFlight(key) = 0 /\ cacheLineHeap[key].wg = 0
    /\ \A r \in DOMAIN readers :
          readers[r].pc = "wait" => readers[r].line \in DOMAIN cacheLineHeap

\* C3's case: both request threads wait on one Inbound line whose single
\* fetch is inside readFile.
C3_Witness ==
    \E key \in DOMAIN cacheLineHeap :
        /\ cacheLineHeap[key].state = CacheLineInbound
        /\ key \in DOMAIN fetchReading /\ fetchReading[key] = 1
        /\ Cardinality(DOMAIN readers) = 2
        /\ \A r \in DOMAIN readers :
              readers[r].pc = "wait" /\ readers[r].line = key

\* C4: a DoRead of bytes [0, N) that returns all N bytes has had exactly
\* the chunks 0 .. ceil(N / cache_line_size) - 1 fetched, each by one
\* readFile call for that chunk's cache-line-sized byte range; no chunk of
\* an inode is ever fetched twice, so a re-read fetches nothing; and no
\* chunk is fetched beyond those a read of the inode has asked for.
C4_ChunkedReadMinimal ==
    /\ \A key \in DOMAIN readFileLog :
          /\ Len(readFileLog[key]) = 1
          /\ readFileLog[key][1].range =
                << key[2] * cacheLineSize, (key[2] + 1) * cacheLineSize - 1 >>
          /\ key[1] \in DOMAIN readAsked
          /\ key[2] < chunksOf(readAsked[key[1]])
    /\ \A r \in DOMAIN readers :
          ( /\ readers[r].pc = "done"
            /\ readers[r].errno = OK
            /\ Len(readers[r].Data) = readers[r].Size )
          => /\ \A c \in 0..(chunksOf(readers[r].Size) - 1) :
                   <<readers[r].NodeID, c>> \in DOMAIN readFileLog
             /\ readers[r].Data = SubSeq(Objects["f"], 1, readers[r].Size)

\* C4's case: two reads of the whole object through one inode have both
\* returned all its bytes.
C4_Witness ==
    /\ Cardinality(DOMAIN readers) = 2
    /\ \A r \in DOMAIN readers :
          /\ readers[r].pc = "done"
          /\ readers[r].errno = OK
          /\ readers[r].Size = ObjectSize
          /\ Len(readers[r].Data) = ObjectSize
    /\ \A r1, r2 \in DOMAIN readers : readers[r1].NodeID = readers[r2].NodeID

\* C9: the Inbound and Clean cache lines together never outnumber the
\* configured cache_lines.
C9_CacheLineBudget ==
    inboundCacheLineCount + Len(cleanCacheLineLRU) <= cacheLines

\* C10: no blocking backend call is in progress in a routine that holds
\* the process-wide lock.
C10_NoBackendCallUnderLock ==
    \A c \in blockingCalls : lockHolder # c.caller

\* A file inode the evictor owes a removal: not virtual, no open handle,
\* last looked up a TTL ago or longer.
dueForEviction(n) ==
    /\ inodeMap[n].inodeType = FileObject
    /\ ~inodeMap[n].isVirt
    /\ inodeMap[n].fhMap = {}
    /\ inodeMap[n].lTime + evictableInodeTTL <= now

\* C13: whatever lookups, opens and releases came before, a sweep of the
\* evictor removes every non-virtual file inode without an open handle
\* whose last lookup is a TTL old, from the inode table and from the path
\* map its parent finds it in.
C13_HandleFreeInodeRemoved ==
    [][inodeEvictor =>
          \A n \in DOMAIN inodeMap :
              dueForEviction(n)
                  => /\ n \notin DOMAIN inodeMap'
                     /\ inodeMap[n].objectPath \notin DOMAIN backendInodeMap']_vars

\* The cache lines of an inode: in the line table or on the clean LRU.
cacheLinesOf(n, heap, lru) ==
    {key \in DOMAIN heap : key[1] = n} \cup {key \in Range(lru) : key[1] = n}

\* C14: when an inode leaves the inode table, by eviction or by the unmount
\* of its backend, none of its cache lines remains: none in the line table,
\* none on the clean LRU where it counts against the budget.
C14_CacheLinesDestroyedWithInode ==
    [][\A n \in DOMAIN inodeMap \ DOMAIN inodeMap' :
          cacheLinesOf(n, cacheLineHeap', cleanCacheLineLRU') = {}]_vars

\* The mount root and the roots of the mounted backends.
rootInodes ==
    {n \in DOMAIN inodeMap :
        inodeMap[n].inodeType \in {FUSERootDir, BackendRootDir}}

\* C19: the mount root (inode 1) and the root of every mounted backend are
\* never on the eviction list, and no sweep of the evictor removes them,
\* whatever their age and their handles.
C19_RootsNeverEvicted ==
    /\ [](FUSERootDirInodeNumber \in rootInodes
            /\ rootInodes \cap Range(inodeLRU) = {})
    /\ [][inodeEvictor => rootInodes \subseteq DOMAIN inodeMap']_vars

\* C19's case: both roots are a TTL old and one has an open handle, the
\* evictor has swept at this hour, and of the inodes only the roots are
\* left: a nonce beyond the roots' and the directory handles' was handed
\* out, the first of them to an inode, and that inode is gone.
C19_Witness ==
    /\ Cardinality(rootInodes) = 2
    /\ \A n \in rootInodes : inodeMap[n].lTime + evictableInodeTTL <= now
    /\ \E n \in rootInodes : inodeMap[n].fhMap # {}
    /\ nextTick > now
    /\ DOMAIN inodeMap = rootInodes
    /\ lastNonce > Cardinality(rootInodes) + Cardinality(DOMAIN fhHeap)

\* C18: every rename and extended rename, whatever it names, is answered
\* EXDEV, and the inode table, the handles, the cache lines and all other
\* state of the file system are as they were.
C18_RenameFailsChangesNothing ==
    [][(renameErrno = NULL /\ renameErrno' # NULL)
          => /\ renameErrno' = EXDEV
             /\ UNCHANGED <<fsVars, dirVars, cfgVars>>]_vars

\* C18's case: a rename has been answered while a file is open with a
\* cache line filled.
C18_Witness ==
    /\ renameErrno = EXDEV
    /\ \E n \in DOMAIN inodeMap :
          /\ inodeMap[n].inodeType = FileObject
          /\ inodeMap[n].fhMap # {}
          /\ \E key \in Range(cleanCacheLineLRU) : key[1] = n

(* -------------- properties of lookups in a tree of directories --------- *)

\* C12: a handler that finds an inode or a file handle missing replies
\* not-found or bad-descriptor; no handler ever terminates the daemon.
C12_MissingInodeNeverTerminates == readDirCall.pc # "fatal"


\* A sequence that begins with another.
isPrefix(short, long) ==
    Len(short) <= Len(long) /\ SubSeq(long, 1, Len(short)) = short

\* The inode and the handle of the enumeration in flight are still in place.
readDirTargetInPlace ==
    /\ readDirCall.P.NodeID \in DOMAIN inodeMap
    /\ readDirCall.P.FH \in inodeMap[readDirCall.P.NodeID].fhMap

\* C11: when DoReadDir / DoReadDirPlus takes the lock again after a
\* successful listDirectory, it looks the inode and the handle up again
\* before it modifies anything: when either is gone it replies ENOENT or
\* EBADF and the inode table, the LRU, the backend's path map and the nonce
\* are as they were; otherwise it goes on from the entries it had.
C11_RevalidatedBeforeModifying ==
    [][listDirectoryReturn(FALSE) =>
          IF readDirTargetInPlace
          THEN readDirCall'.pc # "fatal"
                  => isPrefix(readDirCall.out, readDirCall'.out)
          ELSE /\ readDirCall'.pc = "reply"
               /\ readDirCall'.errno \in {ENOENT, EBADF}
               /\ UNCHANGED <<inodeMap, inodeLRU, backendInodeMap, lastNonce>>]_vars

(* ----------------- properties of the S3 backend context ---------------- *)

\* The errors that say the ifMatch of a call is not the object's ETag: the
\* call's own "eTag mismatch" and the endpoint's 412 Precondition Failed.
ETagMismatchErrors == {ETagMismatch, ResponseError(412)}

\* What a finished call has done, by its ifMatch, to an object that exists
\* and is not rewritten during the call.
ifMatchDecides ==
    /\ s3Call.pc = "request" => s3Call.err \notin ETagMismatchErrors
    /\ (s3Call.pc = "done" /\ s3Call.before.present) =>
          /\ (s3Call.ifMatch = s3Call.before.eTag /\ s3Call.faults = 0)
                => /\ s3Call.err = nil
                   /\ s3Call.op = "readFile" => s3Call.buf
                   /\ s3Call.op = "deleteFile" => ~s3Store.present
          /\ s3Call.ifMatch \notin {"", s3Call.before.eTag}
                => /\ s3Call.err # nil
                   /\ ~s3Call.buf
                   /\ s3Store = s3Call.before
                   /\ s3Call.faults = 0
                         => /\ s3Call.err \in ETagMismatchErrors
                            /\ s3Call.sent = 1

\* C15: readFile, deleteFile and statFile of an object that exists: with
\* ifMatch equal to the object's ETag the call succeeds when its requests are
\* answered (readFile has the bytes, deleteFile has deleted the object); with
\* any other ifMatch it fails, with an ETag-mismatch error after a single
\* request when no request met a fault, and the object is neither read nor
\* deleted; an ETag-mismatch error ends the call, it is never retried; and
\* no step of a call changes the inodes, the handles or the cache lines.
C15_IfMatchDecides ==
    /\ []ifMatchDecides
    /\ [][s3Call' # s3Call => UNCHANGED fsVars]_vars

\* C15's case: the object was rewritten, and a deleteFile passing the ETag
\* it had before has failed with "eTag mismatch", the object in place.
C15_Witness ==
    /\ s3Call.pc = "done"
    /\ s3Call.op = "deleteFile"
    /\ s3Call.before.eTag = "e2"
    /\ s3Call.ifMatch = "e1"
    /\ s3Call.err = ETagMismatch
    /\ s3Store.present

\* C15's other case: a readFile passing the object's ETag has its bytes.
C15_WitnessMatch ==
    /\ s3Call.pc = "done"
    /\ s3Call.op = "readFile"
    /\ s3Call.ifMatch = s3Call.before.eTag
    /\ s3Call.err = nil
    /\ s3Call.buf

\* The schedule of the spec's example, in milliseconds.
ExampleSchedule == <<10, 20, 40, 80, 160, 320, 640, 1280>>

\* C16: once the retry settings are parsed, the schedule is complete: it is
\* empty when retry_base_delay is 0; otherwise it starts at retry_base_delay,
\* each delay is the one before times the multiplier, every delay is at most
\* retry_max_delay and the delay after the last would exceed it; the
\* maximum attempt count is its length plus one; and 10 ms, 2.0, 2000 ms
\* give 10, 20, 40, 80, 160, 320, 640, 1280 ms and 9 attempts.
C16_RetrySchedule ==
    backendS3 # NoBackendS3 =>
        LET retryDelay == backendS3.retryDelay
            base == backendS3.retryBaseDelay
            m    == backendS3.retryNextDelayMultiplier
            max  == backendS3.retryMaxDelay
        IN  /\ backendS3.ended
            /\ base = durationOf(0) => retryDelay = <<>>
            /\ (base # durationOf(0) /\ retryDelay = <<>>)
                  => ~durationLeq(base, max)
            /\ retryDelay # <<>>
                  => /\ retryDelay[1] = base
                     /\ \A i \in 1..(Len(retryDelay) - 1) :
                           retryDelay[i + 1] = nextDelay(retryDelay[i], m)
                     /\ \A i \in 1..Len(retryDelay) :
                           durationLeq(retryDelay[i], max)
                     /\ ~durationLeq(nextDelay(retryDelay[Len(retryDelay)], m), max)
            /\ MaxAttempts = Len(retryDelay) + 1
            /\ ( /\ base = durationOf(parseMilliseconds(10))
                 /\ m = <<2, 1>>
                 /\ max = durationOf(parseMilliseconds(2000)) )
                  => /\ retryDelay = [i \in 1..Len(ExampleSchedule) |->
                                        durationOf(parseMilliseconds(ExampleSchedule[i]))]
                     /\ MaxAttempts = Len(ExampleSchedule) + 1

\* The schedule of the spec's example comes out as the spec gives it.
ExampleScheduleHolds ==
    ( /\ backendS3 # NoBackendS3
      /\ backendS3.retryBaseDelay = durationOf(parseMilliseconds(10))
      /\ backendS3.retryNextDelayMultiplier = <<2, 1>>
      /\ backendS3.retryMaxDelay = durationOf(parseMilliseconds(2000)) )
        => /\ backendS3.ended
           /\ backendS3.retryDelay = [i \in 1..Len(ExampleSchedule) |->
                                        durationOf(parseMilliseconds(ExampleSchedule[i]))]
           /\ MaxAttempts = Len(ExampleSchedule) + 1

\* C17: a failed request is classified retryable exactly when its error is
\* no response error, or its status is below 400, is 429, or is at least
\* 500; a request failed with any other 4xx status is not sent again.
C17_RetryableClassification ==
    (s3Call.pc # "idle" /\ s3Call.err \notin {nil, ETagMismatch}) =>
        /\ s3Call.retryable <=>
              \/ ~s3Call.err.hasResponse
              \/ s3Call.err.status < 400
              \/ s3Call.err.status = 429
              \/ s3Call.err.status >= 500
        /\ ( /\ s3Call.err.hasResponse
             /\ s3Call.err.status >= 400
             /\ s3Call.err.status < 500
             /\ s3Call.err.status # 429 ) => s3Call.pc = "done"

\* C17's case: a request answered 429 is being sent again.
C17_Witness ==
    /\ s3Call.pc = "request"
    /\ s3Call.err = ResponseError(429)
    /\ s3Call.attempt > 1

(* ------------------- properties of the metrics reader ------------------ *)

\* The goroutines inside doExport: from the call, waiting for exportMu
\* included, to the return.
exporting == {p \in DOMAIN readerPc : readerPc[p] \in {"doExport", "Export"}}

\* C20: at most one export run is in progress: the scheduled exports, the
\* exports of manual flushes and the export of Shutdown never overlap.
C20_OneExportRun == Cardinality(exporting) <= 1

\* C20's case: exportDaemon exports for a manual flush while the other
\* flush is queued on flushChan and Shutdown waits for the daemons.
C20_Witness ==
    /\ readerPc["exportDaemon"] = "Export"
    /\ reader.serving # NULL
    /\ reader.flushChan # <<>>
    /\ readerPc["Shutdown"] = "wg.Wait"

\* Shutdown has called its final doExport, or is past it.
finalExportBegun ==
    readerPc["Shutdown"] \in {"doExport", "Export", "ManualReader.Shutdown",
                              "exporter.Shutdown", "returned"}

\* The stages of Shutdown, each resting on the one before.
shutdownInOrder ==
    /\ readerPc["Shutdown"] # "idle" => reader.ctxDone
    /\ finalExportBegun
          => /\ reader.wg = 0
             /\ readerPc["collectDaemon"] = "returned"
             /\ readerPc["exportDaemon"] = "returned"
             /\ reader.collectMu = NULL
    /\ readerPc["Shutdown"] = "Export"
          => /\ reader.exportMu = "Shutdown"
             /\ reader.exportBuffer > 0
             /\ reader.collectBuffer = 0
    /\ reader.readerShutdown
          => /\ readerPc["Shutdown"] \in {"exporter.Shutdown", "returned"}
             /\ reader.collectBuffer = 0
             /\ reader.exportBuffer = 0
    /\ reader.exporterShutdown
          => /\ reader.readerShutdown
             /\ readerPc["Shutdown"] = "returned"

\* C21: Shutdown cancels the context, waits until both daemons have
\* returned, exports in one last doExport all that collectBuffer holds, and
\* only then shuts down the ManualReader and after it the exporter; from the
\* call of the final doExport on, neither daemon takes a step and nothing
\* joins collectBuffer.
C21_ShutdownOrder ==
    /\ []shutdownInOrder
    /\ [][finalExportBegun
            => /\ readerPc'["collectDaemon"] = readerPc["collectDaemon"]
               /\ readerPc'["exportDaemon"] = readerPc["exportDaemon"]
               /\ reader'.collectBuffer <= reader.collectBuffer]_vars

\* C21's case: Shutdown's final doExport hands the exporter the snapshots
\* the daemons left behind, while a flush nobody will serve sits on
\* flushChan.
C21_Witness ==
    /\ readerPc["Shutdown"] = "Export"
    /\ reader.exportBuffer = MaxSnapshots
    /\ reader.flushChan # <<>>

\* C22: collectMu is held only by a goroutine appending its snapshot in
\* doCollect: no goroutine holds it while it is in exporter.Export or waits
\* for exportMu, so that a collection waits for a swap at most, never for
\* an export.
C22_ExportOutsideCollectMu ==
    \A p \in DOMAIN readerPc :
        reader.collectMu = p => readerPc[p] = "append"

\* C22's case: collectDaemon appends a snapshot under collectMu while
\* exportDaemon is in exporter.Export.
C22_Witness ==
    /\ readerPc["exportDaemon"] = "Export"
    /\ readerPc["collectDaemon"] = "append"
    /\ reader.collectMu = "collectDaemon"

(* ---------------- properties: the client-compatible configuration ------ *)

\* C23 as stated: a profile with no storage provider, of an unsupported
\* type, or lacking a required provider field never makes the parse or
\* the reload of a document fail.
C23_IncompleteNeverFails ==
    compat.pc = "checked"
        /\ (\A n \in DOMAIN compat.profiles :
               compat.profiles[n] \in CompleteProfiles \cup UnsupportedProfiles
                                          \cup IncompleteProfiles)
    => compat.err \in {OK, "unsupported extension",
                       "cannot change a setting in backends"}

\* C23, amended: a profile with no storage provider or of an unsupported
\* type is skipped: it yields no backend, is remembered as skipped, and a
\* document of complete and of such profiles fails for no reason of theirs;
\* each complete profile of such a document yields a backend.  A profile of
\* a supported type lacking a required field makes the parse fail.
C23_UnsupportedSkipped ==
    compat.pc = "checked" =>
        /\ \A n \in DOMAIN compat.profiles :
              compat.profiles[n] \in UnsupportedProfiles
                  => n \notin DOMAIN compat.backends
        /\ (\A n \in DOMAIN compat.profiles :
               compat.profiles[n] \in CompleteProfiles \cup UnsupportedProfiles)
           => compat.err \in {OK, "unsupported extension",
                              "cannot change a setting in backends"}
        /\ compat.err = OK =>
              /\ DOMAIN compat.backends =
                     {n \in DOMAIN compat.profiles :
                         compat.profiles[n] \in CompleteProfiles}
              /\ DOMAIN compat.profiles \ DOMAIN compat.backends
                     \subseteq compat.backendsSkipped
        /\ (\E n \in DOMAIN compat.profiles :
               compat.profiles[n] \in IncompleteProfiles)
           => compat.err # OK

\* A reload accepted a document whose profile p is skipped, next to the
\* backend of q, which an earlier document had as a skipped profile.
C23_Witness ==
    /\ compat.pc = "checked"
    /\ compat.err = OK
    /\ DOMAIN compat.profiles = {"p", "q"}
    /\ compat.profiles["p"] \in UnsupportedProfiles
    /\ DOMAIN compat.backends = {"q"}
    /\ compat.backendsSkipped = {"p", "q"}

\* C24: a checked configuration file is rejected for its suffix exactly
\* when the suffix is none of .yaml, .yml and .json.
C24_SuffixDecides ==
    compat.pc = "checked" =>
        (compat.err = "unsupported extension"
            <=> compat.configFilePath \notin {"/etc/msc_config.yaml",
                                              "/etc/msc_config.yml",
                                              "/etc/msc_config.json"})

\* C25: an accepted document has exactly one S3 backend for each s3 / s8k
\* profile with S3Credentials; its bucket_container_name is base_path up to
\* the first slash and its prefix the rest, empty when there is no rest and
\* ending in a slash otherwise.
C25_BucketAndPrefix ==
    compat.pc = "checked" /\ compat.err = OK =>
        /\ DOMAIN compat.backends =
               {n \in DOMAIN compat.profiles :
                   compat.profiles[n] \in CompleteProfiles}
        /\ \A n \in DOMAIN compat.backends :
              LET base_path == compat.profiles[n].storage_provider.options.base_path
                  slash == Index(base_path, "/")
                  rest == IF slash = 0 THEN ""
                          ELSE SubSeq(base_path, slash + 1, Len(base_path))
              IN  /\ compat.backends[n].backend_type = "S3"
                  /\ compat.backends[n].bucket_container_name =
                         (IF slash = 0 THEN base_path
                          ELSE SubSeq(base_path, 1, slash - 1))
                  /\ compat.backends[n].prefix =
                         (IF rest = "" \/ HasSuffix(rest, "/") THEN rest
                          ELSE rest \o "/")

(* ---------------- properties: the telemetry transport ------------------ *)

\* C26: a round trip of the export transport or of the token transport is
\* followed by another exactly when it ended in a connection error or a
\* 408, 429 or 5xx response and retries remain; any other response goes
\* back to the caller.
C26_RetriedOutcomes ==
    [][ /\ (transport.pc = "send" /\ transport'.sent = transport.sent + 1
            /\ transport.attempt < maxRetries
           => (transport'.pc = "send"
                 <=> \/ transport'.outcome.err
                     \/ transport'.outcome.StatusCode \in {408, 429}
                     \/ transport'.outcome.StatusCode \in 500..599))
        /\ (transport.pc = "AcquireTokenByCredential"
            /\ transport' # transport
            /\ transport.msalAttempt < maxRetries
           => (transport'.msalAttempt = transport.msalAttempt + 1
                 <=> \/ transport'.outcome.err
                     \/ transport'.outcome.StatusCode \in {408, 429}
                     \/ transport'.outcome.StatusCode \in 500..599)) ]_vars

\* C27: one request is sent at most 5 times and a token is asked for at
\* most 5 times; the n-th wait between two attempts is 500 ms doubled
\* n - 1 times, at most 8000 ms for the transport and 60000 ms for the
\* token.
C27_FiveAttempts ==
    /\ transport.sent <= 5
    /\ transport.retryCount <= 5
    /\ transport.msalAttempt + 1 <= 5
    /\ \A n \in DOMAIN transport.slept :
          transport.slept[n] = Min(500 * shiftLeft(n - 1), 8000)
    /\ \A n \in DOMAIN transport.msalSlept :
          transport.msalSlept[n] = Min(500 * shiftLeft(n - 1), 60000)
    /\ \A n \in DOMAIN transport.tokenSlept :
          transport.tokenSlept[n] = Min(500 * shiftLeft(n - 1), 60000)

\* C28: GetToken always comes back and the request is then sent; a request
\* sent when there is no token carries no Authorization header, and one
\* sent with a token carries it.
C28_SentWithoutToken ==
    /\ [](transport.sent > 0 =>
             transport.Authorization =
                 (IF transport.token = "" THEN "" ELSE "Bearer token"))
    /\ [](transport.pc = "returned" => transport.sent > 0)
    /\ [][ transport.pc \in {"getToken", "AcquireTokenByCredential"}
             => transport'.pc \in {"AcquireTokenByCredential", "send"}
                   /\ transport'.sent = 0 ]_vars

\* No token after every retry of GetToken, and the request sent and answered.
C28_Witness ==
    /\ transport.pc = "returned"
    /\ transport.retryCount = maxRetries
    /\ transport.token = ""
    /\ transport.sent = 1
    /\ transport.Authorization = ""
    /\ transport.returned = "resp"

(* ---------------- properties: opens on a read-only backend ------------- *)

\* C29: while the backend is read-only, DoOpen answers EACCES to every open
\* of a file that asks for write access, and no handle of a file allows
\* writes.
C29_NoWriteHandle ==
    readOnly =>
        \A n \in DOMAIN inodeMap :
            inodeMap[n].inodeType = FileObject =>
                /\ \A fh \in inodeMap[n].fhMap : ~fhHeap[fh].allowWrites
                /\ \A Flags \in OpenFlags :
                      Flags \cap {"FOpenRequestWRONLY", "FOpenRequestRDWR"} # {}
                          => DoOpenErrno(n, Flags) = EACCES

\* A file of the read-only backend open for reading, where an open for
\* writing would be let in but for the backend.
C29_Witness ==
    /\ readOnly
    /\ \E n \in DOMAIN inodeMap :
          /\ inodeMap[n].inodeType = FileObject
          /\ \E fh \in inodeMap[n].fhMap :
                fhHeap[fh].allowReads /\ ~fhHeap[fh].isExclusive
          /\ DoOpenErrnoWritable(n, {"FOpenRequestRDWR"}) = OK
          /\ DoOpenErrno(n, {"FOpenRequestRDWR"}) = EACCES

(* ---------------- properties: the inode LRU ---------------------------- *)

\* C30: whenever the global lock is free, the inodes on the inode LRU are
\* exactly the evictable ones, and from the front of the LRU to its back
\* the times of the last lookup never decrease.
C30_LRUHoldsEvictable ==
    lockHolder = NULL =>
        /\ \A n \in DOMAIN inodeMap :
              n \in Range(inodeLRU) <=> isEvictable(inodeMap[n])
        /\ \A i, j \in DOMAIN inodeLRU :
              i < j /\ inodeLRU[i] \in DOMAIN inodeMap
                    /\ inodeLRU[j] \in DOMAIN inodeMap
                  => inodeMap[inodeLRU[i]].lTime <= inodeMap[inodeLRU[j]].lTime

(* ------------- a name that changes its type in the bucket -------------- *)

\* Another client of the bucket deletes the objects under "d/" and puts an
\* object "d", or the reverse: the next statFile / statDirectory of the
\* daemon sees the other type.
BucketChange ==
    /\ bucket' = IF bucket = ObjectKeys THEN ReplacedKeys ELSE ObjectKeys
    /\ UNCHANGED <<now, nextTick, lastNonce, inodeMap, inodeLRU, backendInodeMap,
                   cacheLineHeap, cleanCacheLineLRU, inboundCacheLineCount,
                   fetchQueued, fetchReading, readFileLog, readers, lockHolder,
                   backendCall, readAsked, dirVars, cfgVars, renameErrno,
                   s3Vars, telemetryVars, extVars>>

\* The names looked up while "d" changes its type.
ReplacedNames == {"d", "f"}

\* Lookups, opens and releases while the bucket changes under the daemon.
NextReplace ==
    \/ \E n \in Nonces, name \in ReplacedNames : DoLookupStatFile(n, name)
    \/ findChildInodeFound
    \/ findChildInodeStatDirectory
    \/ findChildInodeDirFound
    \/ findChildInodeMissing
    \/ \E n \in Nonces : DoOpenDir(n)
    \/ \E n \in Nonces : DoOpen(n, FOpenRequestRDONLY)
    \/ \E n \in DOMAIN inodeMap, fh \in Nonces : DoRelease(n, fh)
    \/ BucketChange

SpecReplace == InitFS /\ [][NextReplace]_vars

\* Two inodes of the inode table under the same parent with the same name.
sameName(a, b) ==
    /\ a # b
    /\ inodeMap[a].parentInodeNumber = inodeMap[b].parentInodeNumber
    /\ inodeMap[a].basename = inodeMap[b].basename

\* C31: once a lookup has returned, a name under a parent has one inode
\* only: no inode of the other type is left in the inode table beside the
\* one the backend confirmed.
C31_OneInodePerName ==
    lockHolder = NULL =>
        \A a \in DOMAIN inodeMap, b \in DOMAIN inodeMap : ~sameName(a, b)

(* ---------------------- the clean-line LRU ----------------------------- *)

\* The cache line a reader's next pass of DoRead's loop addresses.
lineOf(rd) == <<rd.NodeID, cacheLineNumberOf(rd.curOffset)>>

\* A step in which reader r's pass of the loop found its line Clean: the
\* pass was not the loop's exit, did not fail, and did not end in Wait().
readCleanLine(r) ==
    /\ readers[r].pc \in {"loop", "wait"}
    /\ readers'[r] # readers[r]
    /\ Len(readers[r].Data) < readers[r].Size
    /\ readers'[r].pc # "wait"
    /\ readers'[r].errno \in {NULL, OK}

\* A step in which the fetch of the line at key completed.
fetchCompleted(key) ==
    /\ key \in DOMAIN cacheLineHeap
    /\ cacheLineHeap[key].state = CacheLineInbound
    /\ cacheLineHeap'[key].state # CacheLineInbound

\* C33: a completed fetch leaves its line Clean at the tail of the clean-line
\* LRU; a read that finds its line Clean leaves it at the tail; and no step
\* changes the LRU otherwise than by moving or adding one Clean line to the
\* tail, so the lines stand in the order of their last touch, the least
\* recently touched at the head.
C33_CleanLRUOrder ==
    [][ /\ \A key \in DOMAIN cacheLineHeap :
              fetchCompleted(key) =>
                  /\ cacheLineHeap'[key].state = CacheLineClean
                  /\ cleanCacheLineLRU' = Append(cleanCacheLineLRU, key)
        /\ \A r \in DOMAIN readers :
              readCleanLine(r) =>
                  /\ cacheLineHeap[lineOf(readers[r])].state = CacheLineClean
                  /\ cleanCacheLineLRU' =
                        Append(Remove(cleanCacheLineLRU, lineOf(readers[r])),
                               lineOf(readers[r]))
        /\ cleanCacheLineLRU' # cleanCacheLineLRU =>
              \E key \in DOMAIN cacheLineHeap' :
                  /\ cacheLineHeap'[key].state = CacheLineClean
                  /\ cleanCacheLineLRU' =
                        Append(Remove(cleanCacheLineLRU, key), key) ]_vars

\* C33 witness: a file's second line was fetched after its first, and the
\* first has been read again since: it stands behind the second.
C33_Witness ==
    \E n \in DOMAIN inodeMap :
        /\ Len(cleanCacheLineLRU) = 2
        /\ cleanCacheLineLRU[1] = <<n, 1>>
        /\ cleanCacheLineLRU[2] = <<n, 0>>

\* How many times key stands on the clean-line LRU.
onCleanLRU(key) ==
    Cardinality({i \in 1..Len(cleanCacheLineLRU) : cleanCacheLineLRU[i] = key})

\* C34: with the global lock free, inboundCacheLineCount is the number of
\* Inbound cache lines, a Clean line is on the clean-line LRU exactly once,
\* and any other line, or anything that is no line, is not on it.
C34_CountAndLRU ==
    lockHolder = NULL =>
        /\ inboundCacheLineCount =
              Cardinality({key \in DOMAIN cacheLineHeap :
                              cacheLineHeap[key].state = CacheLineInbound})
        /\ \A key \in DOMAIN cacheLineHeap :
              onCleanLRU(key) =
                  IF cacheLineHeap[key].state = CacheLineClean THEN 1 ELSE 0
        /\ \A i \in 1..Len(cleanCacheLineLRU) :
              cleanCacheLineLRU[i] \in DOMAIN cacheLineHeap

\* C34 witness: the lock is free while one line is Inbound and another is
\* Clean and has been touched by a read since its fetch.
C34_Witness ==
    /\ lockHolder = NULL
    /\ inboundCacheLineCount = 1
    /\ \E key \in DOMAIN cacheLineHeap : cacheLineHeap[key].state = CacheLineInbound
    /\ \E r \in DOMAIN readers :
          /\ readers[r].pc = "loop"
          /\ Len(readers[r].Data) > 0
          /\ Len(cleanCacheLineLRU) > 0

(* ------------------ the retry schedule's computation ------------------- *)

\* C35: for every retry configuration that checkConfigFile accepts, the
\* multiplier 1.0 with a non-zero retry_base_delay not above retry_max_delay
\* among them, the loop that builds the schedule comes to its end.
C35_ScheduleTerminates ==
    (backendS3 # NoBackendS3 /\ backendS3.retryNextDelayMultiplier[1]
                                   >= backendS3.retryNextDelayMultiplier[2])
        => backendS3.ended

(* --------------------- reads at any offset ----------------------------- *)

\* The offsets the kernel reads at: inside the object, at its end, and
\* beyond it.
ReadOffsets == 0..(ObjectSize + cacheLineSize)

\* Lookups of a file, opens, and reads at any offset, while the store may
\* fail a readFile.
NextReadAt ==
    \/ \E n \in Nonces : DoLookupStatFile(n, "f")
    \/ findChildInodeFound
    \/ \E n \in Nonces : DoOpen(n, FOpenRequestRDONLY)
    \/ \E n \in DOMAIN inodeMap, fh \in Nonces : DoRelease(n, fh)
    \/ \E r \in DOMAIN readers, n \in DOMAIN inodeMap, fh \in Nonces,
          offset \in ReadOffsets, size \in {1, cacheLineSize} :
          DoReadAt(r, n, fh, offset, size)
    \/ \E r \in DOMAIN readers : DoReadLoop(r)
    \/ \E r \in DOMAIN readers : DoReadReturn(r)
    \/ \E key \in DOMAIN fetchQueued : fetchStart(key)
    \/ \E key \in DOMAIN fetchReading, failed \in BOOLEAN : fetchFinish(key, failed)

SpecReadAt == InitFS /\ [][NextReadAt]_vars

\* The bytes the object of inode NodeID holds from offset on, at most size.
bytesFrom(NodeID, offset, size) ==
    Min(size, Max({0, Len(Objects[inodeMap[NodeID].objectPath]) - offset}))

\* C36: a read that has returned success has returned every byte the object
\* holds in the range asked for: a fetch that failed, or that found its
\* inode gone, has not ended in a success with less.
C36_FailedFetchIsError ==
    \A r \in DOMAIN readers :
        ( /\ readers[r].pc = "done"
          /\ readers[r].errno = OK
          /\ readers[r].NodeID \in DOMAIN inodeMap )
            => Len(readers[r].Data) =
                  bytesFrom(readers[r].NodeID,
                            readers[r].curOffset - Len(readers[r].Data),
                            readers[r].Size)

\* C40: no read faults: DoRead never slices a chunk's content from a start
\* above its limit.
C40_ReadNeverFaults ==
    \A r \in DOMAIN readers : readers[r].pc # "panic"

(* ------------------ readers waiting for a fetch ------------------------ *)

\* Every cache line a read of the model can address.
LineKeys == (1..MaxNonce) \X (0..(ObjectSize \div cacheLineSize))

\* The file system's steps; a lookup is asked for only while the inode it
\* may create still has a number to take.
NextWait ==
    \/ AdvanceTime
    \/ inodeEvictor
    \/ lastNonce < MaxNonce /\ \E n \in Nonces, name \in LookupNames :
                                  DoLookupStatFile(n, name)
    \/ findChildInodeFound
    \/ findChildInodeStatDirectory
    \/ findChildInodeMissing
    \/ \E n \in Nonces : DoOpen(n, FOpenRequestRDONLY)
    \/ \E n \in DOMAIN inodeMap, fh \in Nonces : DoRelease(n, fh)
    \/ \E r \in DOMAIN readers, n \in DOMAIN inodeMap, fh \in Nonces,
          size \in ReadSizes : DoReadBegin(r, n, fh, size)
    \/ \E r \in DOMAIN readers : DoReadLoop(r)
    \/ \E r \in DOMAIN readers : DoReadReturn(r)
    \/ \E key \in DOMAIN fetchQueued : fetchStart(key)
    \/ \E key \in DOMAIN fetchReading, failed \in BOOLEAN : fetchFinish(key, failed)

\* Two request threads, with the scheduling the daemon runs under: a
\* goroutine that asks for globals.Lock gets it in the end (sync.Mutex hands
\* the lock to a waiter that has starved), so a dispatched fetch reaches its
\* readFile, a readFile that has returned is followed by the rest of fetch,
\* and a reader that can go on does; and a backend call made under the lock
\* returns.
SpecWait ==
    /\ InitShared
    /\ [][NextWait]_vars
    /\ SF_vars(\E key \in LineKeys : fetchStart(key))
    /\ SF_vars(\E key \in LineKeys, failed \in BOOLEAN : fetchFinish(key, failed))
    /\ \A r \in TwoReaders : SF_vars(DoReadLoop(r))
    /\ WF_vars(findChildInodeFound)
    /\ WF_vars(findChildInodeStatDirectory)
    /\ WF_vars(findChildInodeMissing)

\* C37: a reader waiting on a line is released in the end; a fetch that
\* completes takes its line out of Inbound and takes the line's wait group
\* from one to zero, once; and a line's wait group is at one exactly while
\* the line is Inbound.
C37_WaitersReleased ==
    /\ \A r \in TwoReaders :
          (readers[r].pc = "wait") ~> (readers[r].pc # "wait")
    /\ [][ \A key \in DOMAIN cacheLineHeap :
              /\ fetchCompleted(key) =>
                    /\ cacheLineHeap[key].wg = 1
                    /\ cacheLineHeap'[key].wg = 0
              /\ cacheLineHeap'[key].wg # cacheLineHeap[key].wg =>
                    fetchCompleted(key) ]_vars
    /\ [](\A key \in DOMAIN cacheLineHeap :
              cacheLineHeap[key].wg =
                  IF cacheLineHeap[key].state = CacheLineInbound THEN 1 ELSE 0)

\* C37 witness: two readers wait on the same Inbound line, whose fetch is
\* in its readFile.
C37_Witness ==
    \E key \in DOMAIN cacheLineHeap :
        /\ cacheLineHeap[key].state = CacheLineInbound
        /\ \A r \in TwoReaders : readers[r].pc = "wait" /\ readers[r].line = key
        /\ key \in DOMAIN fetchReading
        /\ fetchReading[key] > 0

\* C37 witness: a reader has been released by a fetch that found its inode
\* gone.
C37_WitnessGone ==
    \E r \in TwoReaders :
        /\ readers[r].pc = "done"
        /\ readers[r].errno = ENOENT
        /\ \E key \in DOMAIN cacheLineHeap :
              /\ key[1] = readers[r].NodeID
              /\ key \notin DOMAIN readFileLog
              /\ cacheLineHeap[key].state = CacheLineClean

(* ------------------------ exclusive handles ---------------------------- *)

\* A file is looked up, and opened several times with every combination of
\* flags, and released.
NextExcl ==
    \/ \E n \in Nonces : DoLookupStatFile(n, "f")
    \/ findChildInodeFound
    \/ \E n \in Nonces, Flags \in OpenFlags : DoOpenUpTo(n, Flags, MaxOpenNonce)
    \/ \E n \in DOMAIN inodeMap, fh \in Nonces : DoRelease(n, fh)

SpecExcl == InitOpen /\ [][NextExcl]_vars

\* The handles of inode n that were opened exclusively.
exclusiveHandles(n) ==
    {fh \in inodeMap[n].fhMap \cap DOMAIN fhHeap : fhHeap[fh].isExclusive}

\* C38: a file that has an exclusive handle has no other handle.
C38_ExclusiveAlone ==
    \A n \in DOMAIN inodeMap :
        exclusiveHandles(n) # {} => Cardinality(inodeMap[n].fhMap) = 1

(* ------------------- the child maps' inode numbers --------------------- *)

\* The inode numbers a directory's child maps hold, "." and ".." among them.
childNumbers(n) ==
    Range(inodeMap[n].virtChildDirMap) \cup Range(inodeMap[n].virtChildFileMap)

\* C39: with the lock free, every inode number held in a child map of an
\* inode of the inode table is itself in the inode table.
C39_ChildrenInInodeTable ==
    lockHolder = NULL =>
        \A n \in DOMAIN inodeMap : childNumbers(n) \subseteq DOMAIN inodeMap

====
